---- MODULE Spec2Model ----
(***************************************************************************)
(* Verification model of shah/hugo-aide: hook discovery and registration   *)
(* (plugins.ts), the hook dispatch loops of the successive publish.ts      *)
(* versions, and the publications controller with its CLI (controller.ts   *)
(* and its later revision).                                                *)
(*                                                                         *)
(* Asynchronous TypeScript is modelled turn by turn: an action is what one *)
(* chain of calls does between two suspension points (an await of a child  *)
(* process, of a handler's promise, of file I/O).  A promise that nobody   *)
(* awaits is a separate chain that advances on its own.                    *)
(***************************************************************************)
EXTENDS Integers, Sequences, FiniteSets, TLC

(* ------------------------------------------------------------------ *)
(* Bounds of the model                                                *)
(* ------------------------------------------------------------------ *)
MaxPlugins == 3
MaxEntries == 3
MaxGlobs == 2
MaxChains == 3

(* ------------------------------------------------------------------ *)
(* Generic helpers                                                    *)
(* ------------------------------------------------------------------ *)
SeqsUpTo(S, n) == UNION {[1..k -> S] : k \in 0..n}

Range(s) == {s[i] : i \in DOMAIN s}

IsPrefix(s, t) == Len(s) <= Len(t) /\ \A i \in 1..Len(s) : s[i] = t[i]

RECURSIVE FilterIdx(_, _, _)
\* the indices i of 1..n, ascending, for which keep[i] holds
FilterIdx(keep, i, n) ==
  IF i > n THEN <<>>
  ELSE IF keep[i] THEN <<i>> \o FilterIdx(keep, i + 1, n)
  ELSE FilterIdx(keep, i + 1, n)

VARIABLES
  \* ---- hook dispatch loops of publish.ts (both versions) ----
  plugins,     \* pluginsMgr.plugins: the registered plugins, in registration order
  enhance,     \* chsOptions.enhanceHookContext is supplied
  ehStep,      \* the step executeHooks was called with
  ehPc,        \* where executeHooks is: "idle", "loop", "await", "resolved", "rejected"
  ehIdx,       \* position of the for-of loop in plugins
  ctxSeq,      \* number of hook contexts built so far
  calls,       \* every execute/handler invocation, in order: [hook, ctx]
  running,     \* hooks whose execute/handler has started and not yet settled
  floating,    \* running hooks whose promise nobody awaits
  notAction,   \* hooks logged as "not an Action plugin" / skipped
  failed,      \* hooks whose execute/handler threw or rejected
  unhandled,   \* rejections that no caller observed
  \* ---- discovery and registration (plugins.ts) ----
  fsEntries,       \* what a walk of the project home yields, in traversal order
  hooksGlobs,      \* options.hooksGlobs, the globs discovery is run with
  dPc,             \* "off", "idle", "walk", "done"
  dGlob,           \* position of the outer loop in hooksGlobs
  dWalk,           \* position of the inner loop in the glob's matches
  invalidPlugins,  \* pluginsMgr.invalidPlugins
  \* ---- publications controller and CLI (latest controller) ----
  cliArgs,         \* the truthy keys of the parsed command line
  ctlClass,        \* class of the controller prepareController built
  isDryRun,        \* pco.isDryRun
  initOutcome,     \* whether initController() resolves or rejects
  hugoBuildResults, \* what parseHugoBuildResults gives for the report
  files,           \* generated files and directories that exist
  execInfoCommand, \* execInfoInstance.labels.object.command, as a list
  chains,          \* the promise chains of the run; chains[1] is CLI()
  turn,            \* call stack of the chains running synchronously
  log,             \* what has happened so far: the set of observable events
  stderr,          \* what console.error printed
  unhandledRejections, \* rejections of promises nobody awaits
  cliPc,           \* "off", "start", "running", "returned"
  exited,          \* the process has ended
  exitCode,        \* its exit code
  \* ---- functions applied to one input ----
  fnIn,            \* the arguments of the call
  fnOut,           \* what the call returned, or that it raised
  \* ---- shell hooks: command lines and environments ----
  pco,             \* the options record the option resolver produced
  baseCmd,         \* per plugin, the isExecutableCmd vector its closures hold
  stdout,          \* what validateHooks() printed, one report per call
  spawned          \* the processes spawned so far: [hook, step, cmd, env]

hookVars == <<plugins, enhance, ehStep, ehPc, ehIdx, ctxSeq, calls, running,
              floating, notAction, failed, unhandled>>

discVars == <<fsEntries, hooksGlobs, dPc, dGlob, dWalk, invalidPlugins>>

ctlVars == <<cliArgs, ctlClass, isDryRun, initOutcome, hugoBuildResults, files,
             execInfoCommand,
             chains, turn, log, stderr, unhandledRejections, cliPc, exited,
             exitCode>>

fnVars == <<fnIn, fnOut>>

shellVars == <<pco, baseCmd, stdout, spawned>>

vars == <<hookVars, discVars, ctlVars, fnVars, shellVars>>

(* ------------------------------------------------------------------ *)
(* Lifecycle steps                                                    *)
(* ------------------------------------------------------------------ *)
HookLifecycleStepV1 ==
  {"doctor", "lint", "build", "inspect", "generate", "clean", "update"}

HookLifecycleStep ==
  {"describe", "install", "doctor", "build", "inspect", "generate", "clean",
   "update"}

Outcomes == {"ok", "throws"}

(* ------------------------------------------------------------------ *)
(* Capability tests                                                   *)
(* ------------------------------------------------------------------ *)
\* "execute" in o
isActionPlugin(p) == p.execute

\* a Deno module plugin carrying handler and isAsync
isHookModulePlugin(p) == p.nature = "deno-module" /\ p.handler

\* every plugin of the first publish.ts comes out of discoverFileSystemPlugins
isDiscoverFileSystemPluginSource(p) == p.discovered

(* ------------------------------------------------------------------ *)
(* Plugins a plugins manager can hold                                 *)
(* ------------------------------------------------------------------ *)
\* second version: whatever the registrars of the extension library produce;
\* what matters to the loop is whether the plugin has execute
RegisteredPlugins ==
  [nature : {"shell-file-executable", "deno-module-function"},
   execute : BOOLEAN, handler : {FALSE}, isAsync : {FALSE}, promise : {TRUE},
   discovered : {TRUE}, outcome : Outcomes]

\* first version: shellFileRegistrar yields plugins with execute,
\* isValidModule yields module plugins with handler and isAsync.  promise says
\* whether calling the handler yields a promise: always for an async
\* function, possibly for a plain one.
RegisteredPluginsV1 ==
  [nature : {"shell-file-executable"},
   execute : {TRUE}, handler : {FALSE}, isAsync : {FALSE}, promise : {TRUE},
   discovered : {TRUE}, outcome : Outcomes]
  \cup
  {p \in [nature : {"deno-module"},
          execute : {FALSE}, handler : {TRUE}, isAsync : BOOLEAN,
          promise : BOOLEAN, discovered : {TRUE}, outcome : Outcomes] :
     p.isAsync => p.promise}

\* the HookContext literal built in the loop body, passed through
\* enhanceHookContext when the caller supplied one
HookContext(hookIdx, step, id) ==
  [plugin |-> hookIdx, step |-> step, id |-> id, enhanced |-> enhance]

\* how the promise of hook.execute settles: as the run's input says, or
\* either way for a plugin that discovery has just registered
ExecuteOutcomes(p) ==
  IF "outcome" \in DOMAIN p THEN {p.outcome} ELSE Outcomes

\* discovery is not part of the run
DiscOff ==
  /\ fsEntries = <<>>
  /\ hooksGlobs = <<>>
  /\ dPc = "off"
  /\ dGlob = 0
  /\ dWalk = 0
  /\ invalidPlugins = <<>>

\* a value whose typeof is "string"
StringOf(text) == [typeof |-> "string", value |-> text]

FileNotFound ==
  StringOf("Unable to parse Hugo Build Results: file not found")

\* no function is applied on its own
Pending == [pending |-> TRUE]

isPending(r) == "pending" \in DOMAIN r

FnOff ==
  /\ fnIn = "none"
  /\ fnOut = Pending

\* no shell hook is inspected or spawned
ShellOff ==
  /\ pco = Pending
  /\ baseCmd = <<>>
  /\ stdout = <<>>
  /\ spawned = <<>>

\* no controller is part of the run
CtlOff ==
  /\ cliArgs = {}
  /\ ctlClass = "none"
  /\ isDryRun = FALSE
  /\ initOutcome = "ok"
  /\ hugoBuildResults = FileNotFound
  /\ files = {}
  /\ execInfoCommand = <<>>
  /\ chains = <<>>
  /\ turn = <<>>
  /\ log = {}
  /\ stderr = <<>>
  /\ unhandledRejections = {}
  /\ cliPc = "off"
  /\ exited = FALSE
  /\ exitCode = 0

(* ------------------------------------------------------------------ *)
(* executeHooks, second version of publish.ts                         *)
(* ------------------------------------------------------------------ *)
HooksInit ==
  /\ plugins \in SeqsUpTo(RegisteredPlugins, MaxPlugins)
  /\ enhance \in BOOLEAN
  /\ ehStep = "none"
  /\ ehPc = "idle"
  /\ ehIdx = 0
  /\ ctxSeq = 0
  /\ calls = <<>>
  /\ running = {}
  /\ floating = {}
  /\ notAction = <<>>
  /\ failed = {}
  /\ unhandled = {}
  /\ DiscOff
  /\ CtlOff
  /\ FnOff
  /\ ShellOff

ExecuteHooksCall(step) ==
  /\ ehPc = "idle"
  /\ ehStep' = step
  /\ ehPc' = "loop"
  /\ ehIdx' = 1
  /\ UNCHANGED <<discVars, ctlVars, fnVars, shellVars>>
  /\ UNCHANGED <<plugins, enhance, ctxSeq, calls, running, floating,
                 notAction, failed, unhandled>>

\* ExecuteHooksDispatch with the await of hook.execute dropped
ExecuteHooksDispatchNoAwait ==
  /\ ehPc = "loop"
  /\ ehIdx <= Len(plugins)
  /\ LET hook == plugins[ehIdx]
         hookCtx == HookContext(ehIdx, ehStep, ctxSeq + 1)
     IN /\ ctxSeq' = ctxSeq + 1
        /\ ehIdx' = ehIdx + 1
        /\ IF isActionPlugin(hook)
           THEN /\ calls' = Append(calls, [hook |-> ehIdx, ctx |-> hookCtx])
                /\ running' = running \cup {ehIdx}
                /\ UNCHANGED <<notAction>>
           ELSE /\ notAction' = Append(notAction, ehIdx)
                /\ UNCHANGED <<calls, running>>
  /\ UNCHANGED <<discVars, ctlVars, fnVars, shellVars>>
  /\ UNCHANGED <<plugins, enhance, ehStep, ehPc, floating, failed, unhandled>>

\* one pass through the loop body, up to the await or the continue
ExecuteHooksDispatch ==
  /\ ehPc = "loop"
  /\ ehIdx <= Len(plugins)
  /\ LET hook == plugins[ehIdx]
         hookCtx == HookContext(ehIdx, ehStep, ctxSeq + 1)
     IN /\ ctxSeq' = ctxSeq + 1
        /\ IF isActionPlugin(hook)
           THEN /\ calls' = Append(calls, [hook |-> ehIdx, ctx |-> hookCtx])
                /\ running' = running \cup {ehIdx}
                /\ ehPc' = "await"
                /\ UNCHANGED <<ehIdx, notAction>>
           ELSE /\ notAction' = Append(notAction, ehIdx)
                /\ ehIdx' = ehIdx + 1
                /\ UNCHANGED <<calls, running, ehPc>>
  /\ UNCHANGED <<discVars, ctlVars, fnVars, shellVars>>
  /\ UNCHANGED <<plugins, enhance, ehStep, floating, failed, unhandled>>

\* the awaited execute settles: the loop continues, or the rejection leaves
\* executeHooks
ExecuteHooksAwaited ==
  /\ ehPc = "await"
  /\ running' = running \ {ehIdx}
  /\ \E outcome \in ExecuteOutcomes(plugins[ehIdx]) :
       IF outcome = "ok"
       THEN /\ ehIdx' = ehIdx + 1
            /\ ehPc' = "loop"
            /\ UNCHANGED failed
       ELSE /\ failed' = failed \cup {ehIdx}
            /\ ehPc' = "rejected"
            /\ UNCHANGED ehIdx
  /\ UNCHANGED <<discVars, ctlVars, fnVars, shellVars>>
  /\ UNCHANGED <<plugins, enhance, ehStep, ctxSeq, calls, floating,
                 notAction, unhandled>>

ExecuteHooksReturn ==
  /\ ehPc = "loop"
  /\ ehIdx > Len(plugins)
  /\ ehPc' = "resolved"
  /\ UNCHANGED <<discVars, ctlVars, fnVars, shellVars>>
  /\ UNCHANGED <<plugins, enhance, ehStep, ehIdx, ctxSeq, calls, running,
                 floating, notAction, failed, unhandled>>

HooksNext ==
  \/ \E step \in HookLifecycleStep : ExecuteHooksCall(step)
  \/ ExecuteHooksDispatch
  \/ ExecuteHooksAwaited
  \/ ExecuteHooksReturn

SpecExecuteHooks == HooksInit /\ [][HooksNext]_vars

(* ------------------------------------------------------------------ *)
(* executeHooks, first version of publish.ts                          *)
(* ------------------------------------------------------------------ *)
HooksV1Init ==
  /\ plugins \in SeqsUpTo(RegisteredPluginsV1, MaxPlugins)
  /\ enhance = FALSE
  /\ ehStep = "none"
  /\ ehPc = "idle"
  /\ ehIdx = 0
  /\ ctxSeq = 0
  /\ calls = <<>>
  /\ running = {}
  /\ floating = {}
  /\ notAction = <<>>
  /\ failed = {}
  /\ unhandled = {}
  /\ DiscOff
  /\ CtlOff
  /\ FnOff
  /\ ShellOff

ExecuteHooksV1Call(step) ==
  /\ ehPc = "idle"
  /\ ehStep' = step
  /\ ehPc' = "loop"
  /\ ehIdx' = 1
  /\ UNCHANGED <<discVars, ctlVars, fnVars, shellVars>>
  /\ UNCHANGED <<plugins, enhance, ctxSeq, calls, running, floating,
                 notAction, failed, unhandled>>

\* one pass through the loop body.  hook.execute(pc) is called and its
\* promise dropped; an async handler is awaited; a plain handler is called in
\* place and whatever it returns is dropped.
ExecuteHooksV1Dispatch ==
  /\ ehPc = "loop"
  /\ ehIdx <= Len(plugins)
  /\ LET hook == plugins[ehIdx]
         pc == HookContext(ehIdx, ehStep, ctxSeq + 1)
         call == [hook |-> ehIdx, ctx |-> pc]
     IN IF ~isDiscoverFileSystemPluginSource(hook)
        THEN /\ notAction' = Append(notAction, ehIdx)
             /\ ehIdx' = ehIdx + 1
             /\ UNCHANGED <<ctxSeq, calls, running, floating, ehPc, failed>>
        ELSE /\ ctxSeq' = ctxSeq + 1
             /\ UNCHANGED notAction
             /\ IF isActionPlugin(hook)
                THEN /\ calls' = Append(calls, call)
                     /\ running' = running \cup {ehIdx}
                     /\ floating' = floating \cup {ehIdx}
                     /\ ehIdx' = ehIdx + 1
                     /\ UNCHANGED <<ehPc, failed>>
                ELSE IF isHookModulePlugin(hook)
                THEN /\ calls' = Append(calls, call)
                     /\ IF hook.isAsync
                        THEN /\ running' = running \cup {ehIdx}
                             /\ ehPc' = "await"
                             /\ UNCHANGED <<floating, ehIdx, failed>>
                        ELSE IF hook.promise
                        THEN /\ running' = running \cup {ehIdx}
                             /\ floating' = floating \cup {ehIdx}
                             /\ ehIdx' = ehIdx + 1
                             /\ UNCHANGED <<ehPc, failed>>
                        ELSE IF hook.outcome = "ok"
                        THEN /\ ehIdx' = ehIdx + 1
                             /\ UNCHANGED <<running, floating, ehPc, failed>>
                        ELSE /\ failed' = failed \cup {ehIdx}
                             /\ ehPc' = "rejected"
                             /\ UNCHANGED <<running, floating, ehIdx>>
                ELSE /\ ehIdx' = ehIdx + 1
                     /\ UNCHANGED <<calls, running, floating, ehPc, failed>>
  /\ UNCHANGED <<discVars, ctlVars, fnVars, shellVars>>
  /\ UNCHANGED <<plugins, enhance, ehStep, unhandled>>

\* await hook.handler(pc) settles
ExecuteHooksV1Awaited ==
  /\ ehPc = "await"
  /\ running' = running \ {ehIdx}
  /\ IF plugins[ehIdx].outcome = "ok"
     THEN /\ ehIdx' = ehIdx + 1
          /\ ehPc' = "loop"
          /\ UNCHANGED failed
     ELSE /\ failed' = failed \cup {ehIdx}
          /\ ehPc' = "rejected"
          /\ UNCHANGED ehIdx
  /\ UNCHANGED <<discVars, ctlVars, fnVars, shellVars>>
  /\ UNCHANGED <<plugins, enhance, ehStep, ctxSeq, calls, floating,
                 notAction, unhandled>>

\* a hook nobody awaits settles: the child process of a shell hook exits (or
\* its spawn fails), the dropped promise of a handler resolves or rejects
HookSettlesUnobserved(i) ==
  /\ i \in floating
  /\ running' = running \ {i}
  /\ floating' = floating \ {i}
  /\ IF plugins[i].outcome = "ok"
     THEN UNCHANGED <<failed, unhandled>>
     ELSE /\ failed' = failed \cup {i}
          /\ unhandled' = unhandled \cup {i}
  /\ UNCHANGED <<discVars, ctlVars, fnVars, shellVars>>
  /\ UNCHANGED <<plugins, enhance, ehStep, ehPc, ehIdx, ctxSeq, calls,
                 notAction>>

ExecuteHooksV1Return ==
  /\ ehPc = "loop"
  /\ ehIdx > Len(plugins)
  /\ ehPc' = "resolved"
  /\ UNCHANGED <<discVars, ctlVars, fnVars, shellVars>>
  /\ UNCHANGED <<plugins, enhance, ehStep, ehIdx, ctxSeq, calls, running,
                 floating, notAction, failed, unhandled>>

HooksV1Next ==
  \/ \E step \in HookLifecycleStepV1 : ExecuteHooksV1Call(step)
  \/ ExecuteHooksV1Dispatch
  \/ ExecuteHooksV1Awaited
  \/ \E i \in 1..MaxPlugins : HookSettlesUnobserved(i)
  \/ ExecuteHooksV1Return

SpecExecuteHooksV1 == HooksV1Init /\ [][HooksV1Next]_vars

(* ------------------------------------------------------------------ *)
(* Properties of the dispatch loops                                   *)
(* ------------------------------------------------------------------ *)
\* the plugins with the Action capability, in registration order
ActionHooks ==
  FilterIdx([i \in 1..Len(plugins) |-> isActionPlugin(plugins[i])],
            1, Len(plugins))

\* the plugins without it, in registration order
NonActionHooks ==
  FilterIdx([i \in 1..Len(plugins) |-> ~isActionPlugin(plugins[i])],
            1, Len(plugins))

CallOrder == [i \in 1..Len(calls) |-> calls[i].hook]

\* C1: executeHooks(step) calls execute once on every Action plugin, in
\* registration order, each with a context of its own naming that plugin and
\* the requested step; a plugin is dispatched only when every earlier
\* execute has settled; a plugin without Action is logged and skipped and the
\* loop goes on.
C1_ExecuteHooksSequentialOnce ==
  /\ IsPrefix(CallOrder, ActionHooks)
  /\ IsPrefix(notAction, NonActionHooks)
  /\ ehPc = "resolved" => CallOrder = ActionHooks /\ notAction = NonActionHooks
  /\ \A i \in 1..Len(calls) :
       /\ calls[i].ctx.plugin = calls[i].hook
       /\ calls[i].ctx.step = ehStep
       /\ \A j \in 1..Len(calls) : calls[i].ctx.id = calls[j].ctx.id => i = j
  /\ Cardinality(running) <= 1
  /\ \A i \in 1..Len(calls) - 1 : calls[i].hook \notin running
  /\ ehPc \in {"resolved", "rejected"} => running = {}

\* a run that skipped a plugin without Action and then executed two others
C1_Witness ==
  /\ ehPc = "resolved"
  /\ Len(calls) >= 2
  /\ Len(notAction) >= 1
  /\ notAction[1] < calls[Len(calls)].hook

\* C2: in the first publish.ts a shell hook's child process has exited before
\* the next hook is dispatched and before executeHooks completes; two hooks
\* of a step never run at the same time.
C2_ShellHookExitsBeforeNext ==
  LET shellRunning ==
        {i \in running : plugins[i].nature = "shell-file-executable"}
  IN /\ \A i \in shellRunning : \A c \in 1..Len(calls) : calls[c].hook <= i
     /\ ehPc = "resolved" => shellRunning = {}
     /\ Cardinality(running) <= 1

\* C3: when the execute of the k-th plugin throws or rejects, no plugin after
\* k is invoked and executeHooks rejects with that error.
C3_ThrowingHookAbortsStep ==
  \A k \in failed :
    /\ \A c \in 1..Len(calls) : calls[c].hook <= k
    /\ ehPc = "rejected"

(* ------------------------------------------------------------------ *)
(* Discovery and registration of hooks (plugins.ts)                   *)
(* ------------------------------------------------------------------ *)
\* the globs the model runs discovery with
Globs == {"*.hook-pubctl.*", "*.sh"}

\* fi.mode when the platform reports none
NullMode == -1

\* modes of the files in the project: rw-r--r--, rwxr-xr-x
FileModes == {NullMode, 420, 493}

\* what importing a .ts file gives: the import throws, the module has a
\* default export that is no function, or one that is a function
ModuleKinds == {"importFails", "notFunction", "function"}

\* entries a walk can yield.  hook says that the name has the form
\* <x>.hook-pubctl.<ext>; mode matters for files that are not .ts, module for
\* .ts files.
WalkEntries ==
  [isFile : {FALSE}, hook : {TRUE}, ext : {"sh"}, mode : {493},
   module : {"none"}]
  \cup
  [isFile : {TRUE}, hook : {TRUE}, ext : {"sh"}, mode : FileModes,
   module : {"none"}]
  \cup
  [isFile : {TRUE}, hook : {FALSE}, ext : {"sh"}, mode : {493},
   module : {"none"}]
  \cup
  [isFile : {TRUE}, hook : {TRUE}, ext : {"ts"}, mode : {420},
   module : ModuleKinds]

\* whether a glob matches the name of a walk entry
GlobMatches(glob, we) ==
  CASE glob = "*.hook-pubctl.*" -> we.hook
    [] glob = "*.sh" -> we.ext = "sh"
    [] OTHER -> FALSE

\* fs.expandGlobSync(glob, {root}): the matching entries of the walk, by
\* position in fsEntries, in traversal order
expandGlobSync(glob) ==
  FilterIdx([i \in 1..Len(fsEntries) |-> GlobMatches(glob, fsEntries[i])],
            1, Len(fsEntries))

\* the DiscoverFileSystemPluginSource built for a walk entry; the path of an
\* entry is its position in the walk
DiscoverSource(glob, path) ==
  [systemID |-> path, friendlyName |-> path, absPathAndFileName |-> path,
   glob |-> glob]

\* safety.typeGuard("plugin") and safety.typeGuard("source", "issues")
isValidPluginRegistration(r) == "plugin" \in DOMAIN r

isInvalidPluginRegistration(r) == {"source", "issues"} \subseteq DOMAIN r

InvalidRegistration(source, diagnostic) ==
  [source |-> source,
   issues |-> <<[source |-> source, diagnostics |-> <<diagnostic>>]>>]

\* isExecutable that never looks at the mode
isExecutableWhateverMode(mode) == TRUE

\* isExecutable of shellFileRegistrar: fi.mode & 0o0001, and true when the
\* platform reports no mode
isExecutable(mode) ==
  IF mode # NullMode THEN mode % 2 = 1 ELSE TRUE

\* Deno.statSync(path) throws: the file is gone or cannot be read
StatThrows == -2

\* a call that throws, or an async call whose promise rejects
Raised(error) == [raised |-> error]

isRaised(r) == "raised" \in DOMAIN r

\* safety.typeGuard("absPathAndFileName") and typeGuard("discoveryPath", "glob")
isFileSystemPluginSource(source) == "absPathAndFileName" \in DOMAIN source

isDiscoverSource(source) == "glob" \in DOMAIN source

shellFileRegistrar(source, we) ==
  IF isFileSystemPluginSource(source)
  THEN IF we.mode = StatThrows THEN Raised("Deno.statSync")
       ELSE IF ~isExecutable(we.mode)
       THEN InvalidRegistration(source, "executable bit not set on source")
       ELSE [source |-> source,
             plugin |-> [source |-> source, nature |-> "shell-file-executable",
                         execute |-> TRUE, handler |-> FALSE,
                         isAsync |-> FALSE]]
  ELSE InvalidRegistration(source,
         "shellFileRegistrar() only knows how to register file system sources")

\* isValidModule that takes any module for a hook
isValidModuleAnyDefault(source, we) ==
  IF ~isDiscoverSource(source)
  THEN Raised("potential.source must be DiscoverFileSystemPluginSource")
  ELSE [source |-> source,
        plugin |-> [source |-> source, nature |-> "deno-module",
                    execute |-> FALSE, handler |-> TRUE,
                    isAsync |-> (we.module = "asyncFunction")]]

\* typeScriptFileRegistryOptions.isValidModule of the plugins manager
isValidModule(source, we) ==
  IF ~isDiscoverSource(source)
  THEN Raised("potential.source must be DiscoverFileSystemPluginSource")
  ELSE IF we.module \in {"function", "asyncFunction"}
  THEN [source |-> source,
        plugin |-> [source |-> source, nature |-> "deno-module",
                    execute |-> FALSE, handler |-> TRUE,
                    isAsync |-> (we.module = "asyncFunction")]]
  ELSE InvalidRegistration(source, "does not have a default function")

\* typeScriptFileRegistrar without its try/catch
typeScriptFileRegistrarNoCatch(source, we) ==
  IF isFileSystemPluginSource(source)
  THEN IF we.module = "importFails" THEN Raised("import error")
       ELSE isValidModule(source, we)
  ELSE InvalidRegistration(source,
         "typeScriptFileRegistrar() only knows how to register file system sources")

\* the import and the validation run inside try; what either throws becomes
\* the diagnostic of an invalid registration
typeScriptFileRegistrar(source, we) ==
  IF isFileSystemPluginSource(source)
  THEN IF we.module = "importFails"
       THEN InvalidRegistration(source, "import error")
       ELSE LET validated == isValidModule(source, we)
            IN IF isRaised(validated)
               THEN InvalidRegistration(source, validated.raised)
               ELSE validated
  ELSE InvalidRegistration(source,
         "typeScriptFileRegistrar() only knows how to register file system sources")

\* the registrar chosen by extension, applied to the source
fileSystemPluginRegistrar(source, we) ==
  IF we.ext = "ts"
  THEN typeScriptFileRegistrar(source, we)
  ELSE shellFileRegistrar(source, we)

HooksOff ==
  /\ enhance = FALSE
  /\ ehStep = "none"
  /\ ehPc = "off"
  /\ ehIdx = 0
  /\ ctxSeq = 0
  /\ calls = <<>>
  /\ running = {}
  /\ floating = {}
  /\ notAction = <<>>
  /\ failed = {}
  /\ unhandled = {}

hookRunVars == <<enhance, ehStep, ehPc, ehIdx, ctxSeq, calls, running,
                 floating, notAction, failed, unhandled>>

DiscoverInit ==
  /\ fsEntries \in SeqsUpTo(WalkEntries, MaxEntries)
  /\ hooksGlobs \in SeqsUpTo(Globs, MaxGlobs)
  /\ dPc = "idle"
  /\ dGlob = 0
  /\ dWalk = 0
  /\ plugins = <<>>
  /\ invalidPlugins = <<>>
  /\ HooksOff
  /\ CtlOff
  /\ FnOff
  /\ ShellOff

RECURSIVE FirstGlobWithMatches(_)
\* the first glob position from g on whose walk yields an entry, or
\* Len(hooksGlobs) + 1: the for-of loops pass over a glob that matches nothing
FirstGlobWithMatches(g) ==
  IF g > Len(hooksGlobs) THEN g
  ELSE IF Len(expandGlobSync(hooksGlobs[g])) > 0 THEN g
  ELSE FirstGlobWithMatches(g + 1)

\* PublishCommandHandlerPluginsManager.init calls discoverFileSystemPlugins,
\* which runs up to the first walk entry
PluginsManagerInit ==
  /\ dPc = "idle"
  /\ dPc' = "walk"
  /\ dGlob' = FirstGlobWithMatches(1)
  /\ dWalk' = 1
  /\ UNCHANGED <<fsEntries, hooksGlobs, plugins, invalidPlugins>>
  /\ UNCHANGED <<hookRunVars, ctlVars, fnVars, shellVars>>

\* await register(dfspSrc) rejects for the walk entry the loops are at
RegistrationRaises ==
  LET glob == hooksGlobs[dGlob]
      path == expandGlobSync(glob)[dWalk]
  IN /\ fsEntries[path].isFile
     /\ isRaised(fileSystemPluginRegistrar(DiscoverSource(glob, path),
                                           fsEntries[path]))

\* DiscoverWalkEntry giving up on the first registration that is not valid
DiscoverWalkEntryStopsOnInvalid ==
  /\ dPc = "walk"
  /\ dGlob <= Len(hooksGlobs)
  /\ LET glob == hooksGlobs[dGlob]
         path == expandGlobSync(glob)[dWalk]
         we == fsEntries[path]
         dfspSrc == DiscoverSource(glob, path)
         registration == fileSystemPluginRegistrar(dfspSrc, we)
         stop == we.isFile /\ ~isValidPluginRegistration(registration)
     IN /\ IF we.isFile
           THEN IF isValidPluginRegistration(registration)
                THEN /\ plugins' = Append(plugins, registration.plugin)
                     /\ UNCHANGED invalidPlugins
                ELSE /\ invalidPlugins' = Append(invalidPlugins, registration)
                     /\ UNCHANGED plugins
           ELSE UNCHANGED <<plugins, invalidPlugins>>
        /\ IF stop
           THEN dGlob' = Len(hooksGlobs) + 1 /\ dWalk' = 1
           ELSE IF dWalk < Len(expandGlobSync(glob))
           THEN dWalk' = dWalk + 1 /\ UNCHANGED dGlob
           ELSE dGlob' = FirstGlobWithMatches(dGlob + 1) /\ dWalk' = 1
  /\ dPc' = IF RegistrationRaises THEN "rejected" ELSE dPc
  /\ UNCHANGED <<fsEntries, hooksGlobs>>
  /\ UNCHANGED <<hookRunVars, ctlVars, fnVars, shellVars>>

\* the body of the inner loop for one walk entry: a directory is passed
\* over, a file is registered and the registration handed to onValidPlugin
\* or onInvalidPlugin; then the loops move to the next entry
DiscoverWalkEntry ==
  /\ dPc = "walk"
  /\ dGlob <= Len(hooksGlobs)
  /\ LET glob == hooksGlobs[dGlob]
         path == expandGlobSync(glob)[dWalk]
         we == fsEntries[path]
         dfspSrc == DiscoverSource(glob, path)
         registration == fileSystemPluginRegistrar(dfspSrc, we)
     IN /\ IF we.isFile
           THEN /\ plugins' = IF isValidPluginRegistration(registration)
                              THEN Append(plugins, registration.plugin)
                              ELSE plugins
                /\ invalidPlugins' =
                     IF isInvalidPluginRegistration(registration)
                     THEN Append(invalidPlugins, registration)
                     ELSE invalidPlugins
           ELSE UNCHANGED <<plugins, invalidPlugins>>
        /\ IF dWalk < Len(expandGlobSync(glob))
           THEN dWalk' = dWalk + 1 /\ UNCHANGED dGlob
           ELSE dGlob' = FirstGlobWithMatches(dGlob + 1) /\ dWalk' = 1
  /\ dPc' = IF RegistrationRaises THEN "rejected" ELSE dPc
  /\ UNCHANGED <<fsEntries, hooksGlobs>>
  /\ UNCHANGED <<hookRunVars, ctlVars, fnVars, shellVars>>

\* every glob was walked: discoverFileSystemPlugins and init resolve
DiscoverDone ==
  /\ dPc = "walk"
  /\ dGlob > Len(hooksGlobs)
  /\ dPc' = "done"
  /\ UNCHANGED <<fsEntries, hooksGlobs, dGlob, dWalk, plugins, invalidPlugins>>
  /\ UNCHANGED <<hookRunVars, ctlVars, fnVars, shellVars>>

DiscoverNext ==
  \/ PluginsManagerInit
  \/ DiscoverWalkEntry
  \/ DiscoverDone

SpecDiscover == DiscoverInit /\ [][DiscoverNext]_vars

(* ------------------------------------------------------------------ *)
(* Properties of discovery                                            *)
(* ------------------------------------------------------------------ *)
RECURSIVE CandidatesFrom(_)
\* the files the globs from position g on match: <<glob position, path>>,
\* in glob-list order and, within a glob, in traversal order
CandidatesFrom(g) ==
  IF g > Len(hooksGlobs) THEN <<>>
  ELSE LET m == expandGlobSync(hooksGlobs[g])
           matched == SelectSeq(m, LAMBDA path : fsEntries[path].isFile)
       IN [i \in 1..Len(matched) |-> <<g, matched[i]>>] \o CandidatesFrom(g + 1)

Candidates == CandidatesFrom(1)

\* what a registration list says about where its entries come from
SourcesOf(list) ==
  [i \in 1..Len(list) |-> <<list[i].source.glob, list[i].source.systemID>>]

GlobAndPath(cs) == [i \in 1..Len(cs) |-> <<hooksGlobs[cs[i][1]], cs[i][2]>>]

\* the candidates that are executable files, or modules with a default function
ExpectedValid ==
  SelectSeq(Candidates, LAMBDA c :
    LET we == fsEntries[c[2]]
    IN IF we.ext = "ts" THEN we.module \in {"function", "asyncFunction"}
       ELSE we.mode = NullMode \/ we.mode % 2 = 1)

ExpectedInvalid ==
  SelectSeq(Candidates, LAMBDA c :
    LET we == fsEntries[c[2]]
    IN IF we.ext = "ts" THEN we.module \notin {"function", "asyncFunction"}
       ELSE we.mode # NullMode /\ we.mode % 2 = 0)

C10_NoHookRegisteredTwice ==
  \A i, j \in 1..Len(plugins) :
    plugins[i].source.systemID = plugins[j].source.systemID => i = j

(* ------------------------------------------------------------------ *)
(* hugo-build-results.ts: the parser of the report of a Hugo build     *)
(* ------------------------------------------------------------------ *)
MaxLines == 3

RECURSIVE join(_, _)
\* Array.prototype.join
join(array, separator) ==
  IF array = <<>> THEN ""
  ELSE IF Len(array) = 1 THEN array[1]
  ELSE array[1] \o separator \o join(Tail(array), separator)

\* the words of a report line, as far as the two patterns tell them apart
DigitTokens == {"12", "7"}

isDigits(token) == token \in DigitTokens

\* Number.parseInt of a token made of digits
parseInt(token) == IF token = "12" THEN 12 ELSE 7

\* a line is its words, and whether white space precedes the first
Line(indent, tokens) == [indent |-> indent, tokens |-> tokens]

\* lines of a report: the build time, lines that nearly are one, rows of the
\* template metrics table, lines that nearly are one, a blank line, a title
ReportLines ==
  {Line(FALSE, <<"Total", "in", "12", "ms">>),
   Line(TRUE, <<"Total", "in", "12", "ms">>),
   Line(FALSE, <<"Total", "in", "a.html", "ms">>),
   Line(TRUE, <<"7", "1.5s", "3ms", "1.5s", "12", "a.html">>),
   Line(FALSE, <<"12", "3ms", "3ms", "1.5s", "7", "partials/b.html", "c">>),
   Line(TRUE, <<"7", "1.5s", "3ms", "1.5s", "12">>),
   Line(TRUE, <<"a.html", "1.5s", "3ms", "1.5s", "12", "a.html">>),
   Line(FALSE, <<>>),
   Line(FALSE, <<"cumulative", "average", "maximum">>)}

\* what is at resultFileName: nothing, a file with its lines, or something
\* Deno.readTextFileSync cannot read, a directory say
ReportFiles ==
  {[kind |-> "missing"], [kind |-> "directory"]}
  \cup {[kind |-> "file", lines |-> lines] :
          lines \in SeqsUpTo(ReportLines, MaxLines)}

\* line.match(/^Total in (\d+) ms/)
isBuildTimeLine(line) ==
  /\ ~line.indent
  /\ Len(line.tokens) >= 4
  /\ line.tokens[1] = "Total"
  /\ line.tokens[2] = "in"
  /\ isDigits(line.tokens[3])
  /\ line.tokens[4] = "ms"

\* line.match(/^\s*(\d+)\s+([^\s]+)\s+([^\s]+)\s+([^\s]+)\s+(\d+)\s+(.*?)$/)
isTemplateMetricsRow(line) ==
  /\ Len(line.tokens) >= 6
  /\ isDigits(line.tokens[1])
  /\ isDigits(line.tokens[5])

RECURSIVE buildTimeMatch(_, _)
\* buildResultsContent.match(/^Total in (\d+) ms/m): the first line from n
\* on that matches, 0 when there is none
buildTimeMatch(lines, n) ==
  IF n > Len(lines) THEN 0
  ELSE IF isBuildTimeLine(lines[n]) THEN n
  ELSE buildTimeMatch(lines, n + 1)

\* the HugoBuildParsedTemplateMetrics of a row; the durations are kept as
\* the text of the row
ParsedTemplateMetrics(line) ==
  [cachePotential |-> parseInt(line.tokens[1]),
   cumulativeDurationText |-> line.tokens[2],
   averageDurationText |-> line.tokens[3],
   maximumDurationText |-> line.tokens[4],
   count |-> parseInt(line.tokens[5]),
   templateName |-> join(SubSeq(line.tokens, 6, Len(line.tokens)), " ")]

RECURSIVE parsedTemplateMetricsUntilNoMatch(_, _)
\* variant of the loop that ends at the first line that is not a row
parsedTemplateMetricsUntilNoMatch(lines, n) ==
  IF n > Len(lines) THEN <<>>
  ELSE IF isTemplateMetricsRow(lines[n])
       THEN <<ParsedTemplateMetrics(lines[n])>>
            \o parsedTemplateMetricsUntilNoMatch(lines, n + 1)
       ELSE <<>>

RECURSIVE parsedTemplateMetrics(_, _)
\* for (const line of buildResultsLines) if (metrics) push(ptm)
parsedTemplateMetrics(lines, n) ==
  IF n > Len(lines) THEN <<>>
  ELSE (IF isTemplateMetricsRow(lines[n])
        THEN <<ParsedTemplateMetrics(lines[n])>> ELSE <<>>)
       \o parsedTemplateMetrics(lines, n + 1)

BuildTimeNotFound ==
  StringOf("Unable to parse Hugo Build Results: build time match for /^Total in (\\d+) ms/m not found")

parseHugoBuildResults(file) ==
  IF file.kind = "missing" THEN FileNotFound
  ELSE IF file.kind = "directory" THEN Raised("Deno.readTextFileSync")
  ELSE LET buildTimeLine == buildTimeMatch(file.lines, 1)
       IN IF buildTimeLine # 0
          THEN [typeof |-> "object",
                buildTimeMS |-> parseInt(file.lines[buildTimeLine].tokens[3]),
                parsedTemplateMetrics |-> parsedTemplateMetrics(file.lines, 1)]
          ELSE BuildTimeNotFound

\* typeof o === "string" ? false : true
isValidHugoBuildResults(o) == o.typeof # "string"

ParseHugoBuildResultsInit ==
  /\ fnIn \in ReportFiles
  /\ fnOut = Pending
  /\ plugins = <<>>
  /\ HooksOff
  /\ DiscOff
  /\ CtlOff
  /\ ShellOff

ParseHugoBuildResults ==
  /\ isPending(fnOut)
  /\ fnOut' = parseHugoBuildResults(fnIn)
  /\ UNCHANGED <<fnIn, hookVars, discVars, ctlVars, shellVars>>

SpecParseHugoBuildResults ==
  ParseHugoBuildResultsInit /\ [][ParseHugoBuildResults]_vars

(* ------------------------------------------------------------------ *)
(* Publications controller: the methods as lists of statements        *)
(* ------------------------------------------------------------------ *)
\* A method body is the list of its statements.  "await m()" is m's list
\* followed by the rest of the caller; a call whose promise is dropped is the
\* single statement NotAwaited, which starts a chain of its own.
Stmt(op, what) == [op |-> op, what |-> what, body |-> <<>>]

NotAwaited(what, body) == [op |-> "call", what |-> what, body |-> body]

\* the steps of the latest controller
CtlLifecycleStep ==
  {"observability-clean", "hugo-init", "hugo-inspect", "hugo-clean",
   "install", "uninstall", "doctor", "describe", "inspect", "generate",
   "build-prepare", "build-finalize", "clean", "update"}

execInfoMetricInstanceCommand(command) == Stmt("metric", command)

\* await this.executeHooks(command), that is await this.pluginsMgr.execute
executeHooks(step) == Stmt("hooks", step)

\* await shell.runShellCommand(cmd, ...)
runShellCommand(cmd) == Stmt("shell", cmd)

\* if (fs.existsSync(f)) { isDryRun ? console.log("rm -f", f) : removeSync(f) }
removeIfExists(f) == Stmt("rm", f)

\* the async method's promise resolves
Resolves(method) == Stmt("return", method)

CleanTargets == <<"go.sum", "public", "resources">>

ObservabilityFiles ==
  <<"hugo-build-results.txt", "health.json", "metrics.prom",
    "hugo-template-metrics.csv">>

\* variant of clean that removes the targets before it dispatches the hooks
cleanRemovesFirst ==
  <<execInfoMetricInstanceCommand("clean")>>
  \o [i \in 1..Len(CleanTargets) |-> removeIfExists(CleanTargets[i])]
  \o <<executeHooks("clean"), Resolves("clean")>>

\* PublicationsController.clean
clean ==
  <<execInfoMetricInstanceCommand("clean"), executeHooks("clean")>>
  \o [i \in 1..Len(CleanTargets) |-> removeIfExists(CleanTargets[i])]
  \o <<Resolves("clean")>>

\* SitePublController.clean: super.clean() is called, its promise dropped
SitePublController_clean ==
  <<NotAwaited("super.clean", clean), removeIfExists("go.mod"),
    Resolves("SitePublController.clean")>>

\* this.clean() / ctx.clean(), dispatched on the class of the controller
thisClean(class) ==
  IF class = "SitePublController" THEN SitePublController_clean ELSE clean

\* PublicationsController.hugoClean
hugoClean(class) ==
  <<execInfoMetricInstanceCommand("hugo-clean")>>
  \o thisClean(class)
  \o <<executeHooks("hugo-clean"), runShellCommand("hugo mod clean --all"),
       Resolves("hugoClean")>>

\* PublicationsController.hugoInit: this.hugoClean() is called, its promise
\* dropped
hugoInit(class) ==
  <<execInfoMetricInstanceCommand("hugo-init"),
    NotAwaited("hugoClean", hugoClean(class)),
    runShellCommand("hugo mod init"),
    Stmt("sync", "configureHugo"),
    runShellCommand("hugo mod graph"),
    executeHooks("hugo-init"),
    Resolves("hugoInit")>>

\* SitePublController.hugoInit rewrites the observability hook script, then
\* return await super.hugoInit(...)
SitePublController_hugoInit ==
  <<Stmt("sync", "updateObservabilityHookScript")>>
  \o hugoInit("SitePublController")
  \o <<Resolves("SitePublController.hugoInit")>>

thisHugoInit(class) ==
  IF class = "SitePublController" THEN SitePublController_hugoInit
  ELSE hugoInit(class)

\* PublicationsController.hugoInspect and its override
hugoInspect(class) ==
  (IF class = "SitePublController"
     THEN <<Stmt("sync", "console.log imported modules")>> ELSE <<>>)
  \o <<execInfoMetricInstanceCommand("hugo-inspect"),
       executeHooks("hugo-inspect"), Resolves("hugoInspect")>>

\* PublicationsController.observabilityClean
\* observabilityClean setting the command label of the exec-info instance
observabilityCleanWithCommand ==
  <<execInfoMetricInstanceCommand("observability-clean"),
    executeHooks("observability-clean")>>
  \o [i \in 1..Len(ObservabilityFiles) |->
        removeIfExists(ObservabilityFiles[i])]
  \o <<Resolves("observabilityClean")>>

observabilityClean ==
  <<executeHooks("observability-clean")>>
  \o [i \in 1..Len(ObservabilityFiles) |->
        removeIfExists(ObservabilityFiles[i])]
  \o <<Resolves("observabilityClean")>>

\* PublicationsController.generate
generate ==
  <<execInfoMetricInstanceCommand("generate"), executeHooks("generate"),
    Resolves("generate")>>

\* Deno.writeTextFileSync(this.pco.observabilityHealthFile,
\* JSON.stringify(service)) of a service health status "pass" or "fail"
writeHealth(status) ==
  [op |-> "write", what |-> "health.json", body |-> <<status>>]

\* variant of buildPrepare that stores the health status once the hooks ran
buildPrepareHooksFirst ==
  <<execInfoMetricInstanceCommand("build-prepare"),
    Stmt("tick", "determineVersion"),
    executeHooks("build-prepare"),
    writeHealth("fail"),
    Resolves("buildPrepare")>>

\* PublicationsController.buildPrepare
buildPrepare ==
  <<execInfoMetricInstanceCommand("build-prepare"),
    Stmt("tick", "determineVersion"),
    writeHealth("fail"),
    executeHooks("build-prepare"),
    Resolves("buildPrepare")>>

\* what parseHugoBuildResults returns to buildFinalize: the results of a
\* report, or the text of an error
ParseOutcomes ==
  {parseHugoBuildResults([kind |-> "missing"]),
   parseHugoBuildResults(
     [kind |-> "file",
      lines |-> <<Line(TRUE, <<"7", "1.5s", "3ms", "1.5s", "12", "a.html">>),
                  Line(FALSE, <<"Total", "in", "12", "ms">>)>>])}

\* if (fs.existsSync(src) && fs.existsSync(path.dirname(dest)))
\*   await Deno.copyFile(src, dest)
copyIfExists(src, destHome) ==
  [op |-> "copy", what |-> src, body |-> <<destHome>>]

\* the files buildFinalize publishes, with the directory each is copied to
HealthFile == "health.json"

TemplateMetricsCsvFile == "hugo-template-metrics.csv"

htmlDestHome == "public"

observabilityHtmlDestHome == "public/.observability"

\* variant of buildFinalize that publishes the two files before the hooks
buildFinalizeCopiesFirst(report) ==
  <<execInfoMetricInstanceCommand("build-finalize"),
    Stmt("sync", "parseHugoBuildResults")>>
  \o (IF isValidHugoBuildResults(report)
        THEN <<Stmt("merge", "hugoBuildResults"),
               Stmt("writeTextFile", TemplateMetricsCsvFile)>>
        ELSE <<>>)
  \o <<Stmt("tick", "determineVersion"),
       writeHealth("pass"),
       copyIfExists(HealthFile, htmlDestHome),
       copyIfExists(TemplateMetricsCsvFile, observabilityHtmlDestHome),
       executeHooks("build-finalize"),
       Resolves("buildFinalize")>>

\* PublicationsController.buildFinalize
buildFinalize(report) ==
  <<execInfoMetricInstanceCommand("build-finalize"),
    Stmt("sync", "parseHugoBuildResults")>>
  \o (IF isValidHugoBuildResults(report)
        THEN <<Stmt("merge", "hugoBuildResults"),
               Stmt("writeTextFile", TemplateMetricsCsvFile)>>
        ELSE <<>>)
  \o <<Stmt("tick", "determineVersion"),
       writeHealth("pass"),
       executeHooks("build-finalize"),
       copyIfExists(HealthFile, htmlDestHome),
       copyIfExists(TemplateMetricsCsvFile, observabilityHtmlDestHome),
       Resolves("buildFinalize")>>

\* variant of inspect that dispatches INSPECT after a listing too
inspectListingThenHooks(args) ==
  IF "publications" \in args
    THEN <<Stmt("sync", "inspectPublications"), executeHooks("inspect"),
           Resolves("inspect")>>
    ELSE IF "publishable-modules" \in args
           THEN <<Stmt("sync", "inspectPublishableModules"),
                  executeHooks("inspect"), Resolves("inspect")>>
           ELSE <<executeHooks("inspect"), Resolves("inspect")>>

\* PublicationsController.inspect: the listing of the publications or of the
\* publishable modules when the command line asks for one, the INSPECT hooks
\* otherwise
inspect(args) ==
  IF "publications" \in args
    THEN <<Stmt("sync", "inspectPublications"), Resolves("inspect")>>
    ELSE IF "publishable-modules" \in args
           THEN <<Stmt("sync", "inspectPublishableModules"),
                  Resolves("inspect")>>
           ELSE <<executeHooks("inspect"), Resolves("inspect")>>

\* PublicationsController.update: this.executeHooks(UPDATE) is called, its
\* promise dropped
update ==
  <<execInfoMetricInstanceCommand("update"),
    runShellCommand("udd pubctl.ts"),
    NotAwaited("executeHooks", <<executeHooks("update")>>),
    Resolves("update")>>

(* ------------------------------------------------------------------ *)
(* Command handlers and CLI()                                         *)
(* ------------------------------------------------------------------ *)
\* the plain clean and inspect handlers ahead of the compound ones
commonHandlersPlainFirst ==
  <<"inspectHandler", "cleanHandler", "observabilityHandler",
    "hugoInitHandler", "hugoCleanHandler", "hugoInspectHandler",
    "describeHandler", "installHandler", "validateHooksHandler",
    "buildHandler", "generateHandler", "doctorHandler", "updateHandler",
    "versionHandler">>

commonHandlers ==
  <<"observabilityHandler", "hugoInitHandler", "hugoCleanHandler",
    "hugoInspectHandler", "describeHandler", "installHandler",
    "validateHooksHandler", "inspectHandler", "buildHandler",
    "generateHandler", "cleanHandler", "doctorHandler", "updateHandler",
    "versionHandler">>

\* the command lines the usage text accepts, as the set of their truthy keys;
\* --publ=site names a Hugo publication the controller defines, --publ=other
\* one it does not
CommandLines ==
  {{"install"}, {"doctor"}, {"describe"}, {"inspect"}, {"generate"},
   {"inspect", "publications"}, {"inspect", "publishable-modules"},
   {"clean"}, {"update"}, {"version"}, {"validate", "hooks"},
   {"hugo", "init", "--publ=site"}, {"hugo", "init", "--publ=other"},
   {"hugo", "clean"}, {"hugo", "inspect"}, {"observability", "clean"},
   {"build", "prepare", "--publ=site"}, {"build", "finalize", "--publ=site"},
   {"build", "prepare", "--publ=other"}}

publID(args) == args \cap {"--publ=site", "--publ=other"} # {}

\* ctx.publication(identity) is defined
publication(args) == "--publ=site" \in args

\* what a handler does and whether it returns true
Handled(body) == [handled |-> TRUE, body |-> body]

NotHandled(body) == [handled |-> FALSE, body |-> body]

handler(h, args, class) ==
  CASE h = "observabilityHandler" ->
         IF {"observability", "clean"} \subseteq args
           THEN Handled(observabilityClean) ELSE NotHandled(<<>>)
    [] h = "hugoInitHandler" ->
         IF {"hugo", "init"} \subseteq args /\ publID(args)
           THEN IF publication(args) THEN Handled(thisHugoInit(class))
                ELSE Handled(<<Stmt("console.error",
                                    "unable to init publication")>>)
           ELSE NotHandled(<<>>)
    [] h = "hugoCleanHandler" ->
         IF {"hugo", "clean"} \subseteq args
           THEN Handled(hugoClean(class)) ELSE NotHandled(<<>>)
    [] h = "hugoInspectHandler" ->
         IF {"hugo", "inspect"} \subseteq args
           THEN Handled(hugoInspect(class)) ELSE NotHandled(<<>>)
    [] h = "describeHandler" ->
         IF "describe" \in args
           THEN Handled(<<executeHooks("describe")>>) ELSE NotHandled(<<>>)
    [] h = "installHandler" ->
         IF "install" \in args
           THEN Handled(<<executeHooks("install")>>) ELSE NotHandled(<<>>)
    [] h = "validateHooksHandler" ->
         IF {"validate", "hooks"} \subseteq args
           THEN Handled(<<Stmt("sync", "validateHooks")>>)
           ELSE NotHandled(<<>>)
    [] h = "inspectHandler" ->
         IF "inspect" \in args THEN Handled(inspect(args))
           ELSE NotHandled(<<>>)
    [] h = "buildHandler" ->
         IF "build" \in args /\ publID(args)
           THEN IF publication(args)
                  THEN IF "prepare" \in args THEN Handled(buildPrepare)
                       ELSE IF "finalize" \in args
                              THEN Handled(buildFinalize(hugoBuildResults))
                       ELSE NotHandled(<<>>)
                  ELSE NotHandled(<<Stmt("console.error",
                                         "unable to build publication")>>)
           ELSE NotHandled(<<>>)
    [] h = "generateHandler" ->
         IF "generate" \in args THEN Handled(generate) ELSE NotHandled(<<>>)
    [] h = "cleanHandler" ->
         IF "clean" \in args THEN Handled(thisClean(class))
         ELSE NotHandled(<<>>)
    [] h = "doctorHandler" ->
         IF "doctor" \in args
           THEN Handled(<<executeHooks("doctor")>>) ELSE NotHandled(<<>>)
    [] h = "updateHandler" ->
         IF "update" \in args THEN Handled(update) ELSE NotHandled(<<>>)
    [] h = "versionHandler" ->
         IF "version" \in args
           THEN Handled(<<Stmt("tick", "determineVersion"),
                          Stmt("sync", "console.log version")>>)
           ELSE NotHandled(<<>>)

RECURSIVE HandlerLoop(_, _, _)
\* for (const handler of commonHandlers) if (await handler(context)) break;
\* and the report when no handler returned true
HandlerLoop(k, args, class) ==
  IF k > Len(commonHandlers)
    THEN <<Stmt("console.error", "Unable to handle validly parsed docoptSpec")>>
    ELSE LET r == handler(commonHandlers[k], args, class)
         IN IF r.handled
              THEN r.body \o <<Stmt("handledBy", commonHandlers[k])>>
              ELSE r.body \o HandlerLoop(k + 1, args, class)

\* the try block of CLI()
CLIBody(args, class) ==
  <<Stmt("initController", "")>>
  \o HandlerLoop(1, args, class)
  \o <<Stmt("finalizeController", "")>>

(* ------------------------------------------------------------------ *)
(* A run of CLI(): chains of awaited calls, one running at a time     *)
(* ------------------------------------------------------------------ *)
\* the hooks a controller run is given: executable shell hooks whose process
\* can be started or not, and a plugin without execute
CtlPlugins ==
  [nature : {"shell-file-executable"},
   execute : {TRUE}, handler : {FALSE}, isAsync : {FALSE}, promise : {TRUE},
   discovered : {TRUE}, outcome : Outcomes]
  \cup
  [nature : {"deno-module"},
   execute : {FALSE}, handler : {FALSE}, isAsync : {FALSE}, promise : {TRUE},
   discovered : {TRUE}, outcome : {"ok"}]

ControllerClasses == {"PublicationsController", "SitePublController"}

\* the project before the run: nothing generated yet, or everything
ProjectStates ==
  {{}, {"go.sum", "go.mod", "public", "resources", "health.json",
        "metrics.prom"},
   {"go.sum", "go.mod", "public", "resources", "health.json",
    "metrics.prom", "hugo-template-metrics.csv", "public/.observability"}}

CLIInit ==
  /\ plugins \in SeqsUpTo(CtlPlugins, MaxPlugins)
  /\ HooksOff
  /\ DiscOff
  /\ FnOff
  /\ ShellOff
  /\ cliArgs \in CommandLines
  /\ ctlClass \in ControllerClasses
  /\ isDryRun \in BOOLEAN
  /\ initOutcome \in Outcomes
  /\ hugoBuildResults \in IF "finalize" \in cliArgs THEN ParseOutcomes
                          ELSE {FileNotFound}
  /\ files \in ProjectStates
  /\ execInfoCommand = <<>>
  /\ chains = <<>>
  /\ turn = <<>>
  /\ log = {}
  /\ stderr = <<>>
  /\ unhandledRejections = {}
  /\ cliPc = "start"
  /\ exited = FALSE
  /\ exitCode = 0

ctlInputs == <<cliArgs, ctlClass, isDryRun, initOutcome, hugoBuildResults>>

Chain(body) == [body |-> body, wait |-> "run", idx |-> 0]

\* the chain on top of the call stack is at a statement of kind op
Running(op) ==
  /\ ~exited
  /\ turn # <<>>
  /\ chains[Head(turn)].body # <<>>
  /\ Head(chains[Head(turn)].body).op = op

Statement == Head(chains[Head(turn)].body)

Event(ev, what, hook) == [ev |-> ev, what |-> what, hook |-> hook]

\* the running chain goes on to its next statement
Proceed ==
  /\ chains' = [chains EXCEPT ![Head(turn)].body = Tail(@)]
  /\ UNCHANGED turn

\* the running chain reaches an await: control returns to whoever called it
Suspend(wait, idx, rest) ==
  /\ chains' = [chains EXCEPT ![Head(turn)] =
                  [body |-> rest, wait |-> wait, idx |-> idx]]
  /\ turn' = Tail(turn)

\* the first Action plugin after position i, 0 when there is none
NextActionPlugin(i) ==
  LET later == {j \in (i + 1)..Len(plugins) : isActionPlugin(plugins[j])}
  IN IF later = {} THEN 0 ELSE CHOOSE j \in later : \A k \in later : j <= k

\* the catch block of CLI(): console.error(e.message), and CLI() returns
Catch(message, hook) ==
  /\ stderr' = Append(stderr, [by |-> "catch", message |-> message,
                                hook |-> hook])
  /\ chains' = [chains EXCEPT ![1] = [body |-> <<>>, wait |-> "done",
                                      idx |-> 0]]
  /\ turn' = <<>>
  /\ cliPc' = "returned"

\* the options record the controller is built with, as far as the commands
\* of the controller go: metrics is a new PublicationMetrics, with no
\* instance recorded
ControllerOptions(dryRun) == [isDryRun |-> dryRun, metrics |-> <<>>]

\* CLI() is called: everything up to await context.initController()
CLI ==
  /\ cliPc = "start"
  /\ cliPc' = "running"
  /\ pco' = ControllerOptions(isDryRun)
  /\ chains' = <<Chain(CLIBody(cliArgs, ctlClass))>>
  /\ turn' = <<1>>
  /\ UNCHANGED <<ctlInputs, files, execInfoCommand, log, stderr,
                 unhandledRejections, exited, exitCode>>
  /\ UNCHANGED <<hookVars, discVars, fnVars, baseCmd, stdout, spawned>>

\* await context.initController()
InitController ==
  /\ Running("initController")
  /\ IF initOutcome = "throws"
       THEN /\ Catch("initController", 0)
            /\ UNCHANGED log
       ELSE /\ Suspend("tick", 0, Tail(chains[Head(turn)].body))
            /\ log' = log \cup {Event("init", "", 0)}
            /\ UNCHANGED <<stderr, cliPc>>
  /\ UNCHANGED <<ctlInputs, files, execInfoCommand, unhandledRejections,
                 exited, exitCode>>
  /\ UNCHANGED <<hookVars, discVars, fnVars, shellVars>>

\* this.execInfoMetricInstanceCommand(step)
ExecInfoMetricInstanceCommand ==
  /\ Running("metric")
  /\ execInfoCommand' = Append(execInfoCommand, Statement.what)
  /\ Proceed
  /\ UNCHANGED <<ctlInputs, files, log, stderr, unhandledRejections, cliPc,
                 exited, exitCode>>
  /\ UNCHANGED <<hookVars, discVars, fnVars, shellVars>>

\* a forEach round that removes the file whether the run is dry or not
RemoveSyncDryRunIgnored ==
  /\ Running("rm")
  /\ IF Statement.what \in files
       THEN /\ log' = log \cup {Event("rm", Statement.what, 0)}
            /\ files' = files \ {Statement.what}
       ELSE UNCHANGED <<log, files>>
  /\ Proceed
  /\ UNCHANGED <<ctlInputs, execInfoCommand, stderr, unhandledRejections,
                 cliPc, exited, exitCode>>
  /\ UNCHANGED <<hookVars, discVars, fnVars, shellVars>>

\* one round of a forEach that removes a generated file, or prints the rm
RemoveSync ==
  /\ Running("rm")
  /\ IF Statement.what \in files
       THEN /\ log' = log \cup {Event(IF isDryRun THEN "rm -f" ELSE "rm",
                                        Statement.what, 0)}
            /\ files' = IF isDryRun THEN files ELSE files \ {Statement.what}
       ELSE UNCHANGED <<log, files>>
  /\ Proceed
  /\ UNCHANGED <<ctlInputs, execInfoCommand, stderr, unhandledRejections,
                 cliPc, exited, exitCode>>
  /\ UNCHANGED <<hookVars, discVars, fnVars, shellVars>>

\* await Deno.writeTextFile(csvFile, ...)
WriteTextFile ==
  /\ Running("writeTextFile")
  /\ log' = log \cup {Event("write", Statement.what, 0)}
  /\ files' = files \cup {Statement.what}
  /\ Suspend("tick", 0, Tail(chains[Head(turn)].body))
  /\ UNCHANGED <<ctlInputs, execInfoCommand, stderr, unhandledRejections,
                 cliPc, exited, exitCode>>
  /\ UNCHANGED <<hookVars, discVars, fnVars, shellVars>>

\* one round of the copy loop of buildFinalize
CopyIfExists ==
  /\ Running("copy")
  /\ IF Statement.what \in files /\ Statement.body[1] \in files
       THEN /\ log' = log \cup {Event("copy", Statement.what, 0)}
            /\ files' = files \cup {Statement.body[1] \o "/" \o Statement.what}
            /\ Suspend("tick", 0, Tail(chains[Head(turn)].body))
       ELSE /\ UNCHANGED <<log, files>>
            /\ Proceed
  /\ UNCHANGED <<ctlInputs, execInfoCommand, stderr, unhandledRejections,
                 cliPc, exited, exitCode>>
  /\ UNCHANGED <<hookVars, discVars, fnVars, shellVars>>

\* this.pco.metrics.merge(hbrMetrics)
MetricsMerge ==
  /\ Running("merge")
  /\ pco' = [pco EXCEPT !.metrics = Append(@, <<Statement.what>>)]
  /\ log' = log \cup {Event("merge", Statement.what, 0)}
  /\ Proceed
  /\ UNCHANGED <<ctlInputs, files, execInfoCommand, stderr,
                 unhandledRejections, cliPc, exited, exitCode>>
  /\ UNCHANGED <<hookVars, discVars, fnVars, baseCmd, stdout, spawned>>

\* a synchronous statement: configureHugo, validateHooks, console.log,
\* Deno.writeTextFileSync of the health file, handledBy = handler
SyncStatement ==
  /\ \/ Running("sync")
     \/ Running("write")
     \/ Running("handledBy")
  /\ log' = log \cup {Event(Statement.op, Statement.what, 0)}
               \cup {Event("health", Statement.body[k], 0) :
                       k \in 1..Len(Statement.body)}
  /\ files' = IF Statement.op = "write" THEN files \cup {Statement.what} ELSE files
  /\ Proceed
  /\ UNCHANGED <<ctlInputs, execInfoCommand, stderr, unhandledRejections,
                 cliPc, exited, exitCode>>
  /\ UNCHANGED <<hookVars, discVars, fnVars, shellVars>>

\* console.error(...) of a handler or of CLI() when nothing handled the args
ConsoleError ==
  /\ Running("console.error")
  /\ stderr' = Append(stderr, [by |-> "console.error", message |-> Statement.what,
                                hook |-> 0])
  /\ Proceed
  /\ UNCHANGED <<ctlInputs, files, execInfoCommand, log, unhandledRejections,
                 cliPc, exited, exitCode>>
  /\ UNCHANGED <<hookVars, discVars, fnVars, shellVars>>

\* a call of an async method whose promise is dropped: the callee runs at
\* once, up to its first await, as a chain that nothing waits for
CallNotAwaited ==
  /\ Running("call")
  /\ chains' = Append([chains EXCEPT ![Head(turn)].body = Tail(@)],
                      Chain(Statement.body))
  /\ turn' = <<Len(chains) + 1>> \o turn
  /\ log' = log \cup {Event("call", Statement.what, 0)}
  /\ UNCHANGED <<ctlInputs, files, execInfoCommand, stderr,
                 unhandledRejections, cliPc, exited, exitCode>>
  /\ UNCHANGED <<hookVars, discVars, fnVars, shellVars>>

\* await this.pluginsMgr.execute(command): the first Action plugin's execute
\* is called and awaited; with no Action plugin the await is of a settled
\* promise
PluginsMgrExecute ==
  /\ Running("hooks")
  /\ LET j == NextActionPlugin(0)
         c == Head(turn)
     IN IF j = 0
          THEN /\ Suspend("tick", 0, Tail(chains[c].body))
               /\ log' = log \cup {Event("dispatch", Statement.what, 0)}
          ELSE /\ Suspend("hook", j, chains[c].body)
               /\ log' = log \cup {Event("dispatch", Statement.what, 0),
                                  Event("hookStart", Statement.what, j)}
  /\ UNCHANGED <<ctlInputs, files, execInfoCommand, stderr,
                 unhandledRejections, cliPc, exited, exitCode>>
  /\ UNCHANGED <<hookVars, discVars, fnVars, shellVars>>

\* await of a child process or of file I/O: runShellCommand, determineVersion,
\* Deno.copyFile
AwaitExternal ==
  /\ \/ Running("shell")
     \/ Running("tick")
  /\ log' = log \cup {Event(Statement.op, Statement.what, 0)}
  /\ Suspend("tick", 0, Tail(chains[Head(turn)].body))
  /\ UNCHANGED <<ctlInputs, files, execInfoCommand, stderr,
                 unhandledRejections, cliPc, exited, exitCode>>
  /\ UNCHANGED <<hookVars, discVars, fnVars, shellVars>>

\* an async method returns: its promise resolves, and the caller that awaits
\* it goes on in a later turn
AsyncMethodResolves ==
  /\ Running("return")
  /\ log' = log \cup {Event("return", Statement.what, 0)}
  /\ Suspend("tick", 0, Tail(chains[Head(turn)].body))
  /\ UNCHANGED <<ctlInputs, files, execInfoCommand, stderr,
                 unhandledRejections, cliPc, exited, exitCode>>
  /\ UNCHANGED <<hookVars, discVars, fnVars, shellVars>>

\* await context.finalizeController(handledBy): record the metric of the
\* commands run, this.pco.metrics.record(this.execInfoInstance), and persist
\* the metrics; persistMetrics writes the file whenever there is something
\* to export, dry run or not
FinalizeController ==
  /\ Running("finalizeController")
  /\ log' = log \cup {Event("finalize", "", 0)}
  /\ pco' = IF execInfoCommand # <<>>
              THEN [pco EXCEPT !.metrics = Append(@, execInfoCommand)]
              ELSE pco
  /\ files' = IF pco'.metrics # <<>>
                THEN files \cup {"metrics.prom"} ELSE files
  /\ Suspend("tick", 0, Tail(chains[Head(turn)].body))
  /\ UNCHANGED <<ctlInputs, execInfoCommand, stderr, unhandledRejections,
                 cliPc, exited, exitCode>>
  /\ UNCHANGED <<hookVars, discVars, fnVars, baseCmd, stdout, spawned>>

\* the running chain has no statement left: its promise resolves; for
\* chains[1] this is CLI() returning
ChainCompletes ==
  /\ ~exited
  /\ turn # <<>>
  /\ chains[Head(turn)].body = <<>>
  /\ chains' = [chains EXCEPT ![Head(turn)].wait = "done"]
  /\ turn' = Tail(turn)
  /\ cliPc' = IF Head(turn) = 1 THEN "returned" ELSE cliPc
  /\ UNCHANGED <<ctlInputs, files, execInfoCommand, log, stderr,
                 unhandledRejections, exited, exitCode>>
  /\ UNCHANGED <<hookVars, discVars, fnVars, shellVars>>

\* nothing is running: a chain whose await has settled continues
Resume(c) ==
  /\ ~exited
  /\ turn = <<>>
  /\ c \in 1..Len(chains)
  /\ chains[c].wait = "tick"
  /\ chains' = [chains EXCEPT ![c].wait = "run"]
  /\ turn' = <<c>>
  /\ UNCHANGED <<ctlInputs, files, execInfoCommand, log, stderr,
                 unhandledRejections, cliPc, exited, exitCode>>
  /\ UNCHANGED <<hookVars, discVars, fnVars, shellVars>>

\* the execute a chain awaits resolves: the loop calls the next Action
\* plugin's execute, or execute() resolves and the chain continues
HookExecuteResolves(c) ==
  /\ ~exited
  /\ turn = <<>>
  /\ c \in 1..Len(chains)
  /\ chains[c].wait = "hook"
  /\ plugins[chains[c].idx].outcome = "ok"
  /\ LET step == Head(chains[c].body).what
         i == chains[c].idx
         j == NextActionPlugin(i)
     IN IF j = 0
          THEN /\ chains' = [chains EXCEPT ![c] =
                               [body |-> Tail(chains[c].body),
                                wait |-> "run", idx |-> 0]]
               /\ turn' = <<c>>
               /\ log' = log \cup {Event("hookEnd", step, i)}
          ELSE /\ chains' = [chains EXCEPT ![c].idx = j]
               /\ turn' = turn
               /\ log' = log \cup {Event("hookEnd", step, i),
                                  Event("hookStart", step, j)}
  /\ UNCHANGED <<ctlInputs, files, execInfoCommand, stderr,
                 unhandledRejections, cliPc, exited, exitCode>>
  /\ UNCHANGED <<hookVars, discVars, fnVars, shellVars>>

\* the execute a chain awaits rejects: the loop ends and the rejection goes up
\* the awaits; in chains[1] it reaches the catch of CLI(), in a chain nobody
\* awaits it is an unhandled rejection, on which the runtime ends the process
HookExecuteRejects(c) ==
  /\ ~exited
  /\ turn = <<>>
  /\ c \in 1..Len(chains)
  /\ chains[c].wait = "hook"
  /\ plugins[chains[c].idx].outcome = "throws"
  /\ LET step == Head(chains[c].body).what
         i == chains[c].idx
     IN /\ log' = log \cup {Event("hookFailed", step, i)}
        /\ IF c = 1
             THEN /\ Catch(step, i)
                  /\ UNCHANGED <<unhandledRejections, exited, exitCode>>
             ELSE /\ chains' = [chains EXCEPT ![c] =
                                  [body |-> <<>>, wait |-> "rejected",
                                   idx |-> 0]]
                  /\ unhandledRejections' = unhandledRejections
                       \cup {[step |-> step, hook |-> i]}
                  /\ exited' = TRUE
                  /\ exitCode' = 1
                  /\ UNCHANGED <<turn, stderr, cliPc>>
  /\ UNCHANGED <<ctlInputs, files, execInfoCommand>>
  /\ UNCHANGED <<hookVars, discVars, fnVars, shellVars>>

\* CLI() has returned and nothing is pending: the process ends; nothing in
\* the controller sets an exit code
ProcessExits ==
  /\ ~exited
  /\ cliPc = "returned"
  /\ turn = <<>>
  /\ \A c \in 1..Len(chains) : chains[c].wait = "done"
  /\ exited' = TRUE
  /\ exitCode' = 0
  /\ UNCHANGED <<ctlInputs, files, execInfoCommand, chains, turn, log, stderr,
                 unhandledRejections, cliPc>>
  /\ UNCHANGED <<hookVars, discVars, fnVars, shellVars>>

CLINext ==
  \/ CLI
  \/ InitController
  \/ ExecInfoMetricInstanceCommand
  \/ RemoveSync
  \/ WriteTextFile
  \/ CopyIfExists
  \/ MetricsMerge
  \/ SyncStatement
  \/ ConsoleError
  \/ CallNotAwaited
  \/ PluginsMgrExecute
  \/ AwaitExternal
  \/ AsyncMethodResolves
  \/ FinalizeController
  \/ ChainCompletes
  \/ \E c \in 1..MaxChains : Resume(c)
  \/ \E c \in 1..MaxChains : HookExecuteResolves(c)
  \/ \E c \in 1..MaxChains : HookExecuteRejects(c)
  \/ ProcessExits

SpecCLI == CLIInit /\ [][CLINext]_vars

(* ------------------------------------------------------------------ *)
(* Properties of the controller and of CLI()                          *)
(* ------------------------------------------------------------------ *)
Happened(ev, what, hook) == Event(ev, what, hook) \in log

\* the plugins pluginsMgr.execute calls
ActionPluginIdx == {i \in 1..Len(plugins) : isActionPlugin(plugins[i])}

\* every Action plugin's execute for the step has resolved
HooksCompleted(step) ==
  \A i \in ActionPluginIdx : Happened("hookEnd", step, i)

\* the dispatch of the step is over: every execute resolved, or one rejected
\* and ended the loop
DispatchOver(step) ==
  \/ HooksCompleted(step)
  \/ \E i \in ActionPluginIdx : Happened("hookFailed", step, i)

\* the forEach round for f has removed f, or printed the rm under dry-run
Removal(f) == Happened("rm", f, 0) \/ Happened("rm -f", f, 0)

\* C4: in PublicationsController.clean every CLEAN hook has completed before
\* any of go.sum, public, resources is removed (or, under dry-run, reported),
\* and clean() resolves only once the hooks have completed and no target that
\* was to be removed is left.
C4_CleanHooksBeforeRemovals ==
  /\ \A f \in Range(CleanTargets) : Removal(f) => HooksCompleted("clean")
  /\ Happened("return", "clean", 0) =>
       /\ HooksCompleted("clean")
       /\ \A f \in Range(CleanTargets) :
            f \in files => isDryRun /\ Removal(f)

C4_Witness ==
  /\ Happened("return", "clean", 0)
  /\ Cardinality(ActionPluginIdx) >= 2
  /\ \A f \in Range(CleanTargets) : Happened("rm", f, 0)

\* C5: in SitePublController.clean the base-class clean has resolved before
\* go.mod is removed, and the override's promise resolves only after the
\* base-class clean has resolved.
C5_SiteCleanAwaitsBaseClean ==
  /\ Removal("go.mod") => Happened("return", "clean", 0)
  /\ Happened("return", "SitePublController.clean", 0) =>
       Happened("return", "clean", 0)

\* C6: update dispatches the UPDATE hooks only after udd has run, and neither
\* update() resolves nor finalizeController starts before the dispatch of
\* UPDATE is over.
C6_UpdateAwaitsHooks ==
  /\ Happened("dispatch", "update", 0) =>
       Happened("shell", "udd pubctl.ts", 0)
  /\ Happened("return", "update", 0) => DispatchOver("update")
  /\ "update" \in cliArgs /\ Happened("finalize", "", 0) =>
       DispatchOver("update")

\* C7: whatever the command, a hook's error reaches the catch of CLI(), which
\* prints its message; none is an unhandled rejection.
C7_HookErrorsReachCatch ==
  /\ unhandledRejections = {}
  /\ \A e \in log :
       e.ev = "hookFailed" =>
         \E k \in 1..Len(stderr) :
           stderr[k] = [by |-> "catch", message |-> e.what, hook |-> e.hook]

\* the errors raised in the run: those the catch of CLI() saw and those
\* nobody saw
ErrorsCaught == {k \in 1..Len(stderr) : stderr[k].by = "catch"}

\* C8: the process ends with exit code 0 exactly when no error was raised,
\* and an error is caught and printed once.
C8_ExitCodeReflectsErrors ==
  exited =>
    /\ exitCode = 0 <=> (ErrorsCaught = {} /\ unhandledRejections = {})
    /\ Cardinality(ErrorsCaught) <= 1

(* ------------------------------------------------------------------ *)
(* The registrars applied to one plugin source                        *)
(* ------------------------------------------------------------------ *)
\* every permission mode stat can report
AllModes == 0..511

\* what importing a .ts file can give, asynchronous default functions included
AnyModuleKinds == ModuleKinds \cup {"asyncFunction"}

\* what can be found at the path of a source: a file of any mode, or nothing
\* that stat can read
AnyFiles ==
  [isFile : {TRUE}, hook : {TRUE}, ext : {"sh", "py"},
   mode : AllModes \cup {NullMode, StatThrows}, module : {"none"}]
  \cup
  [isFile : {TRUE}, hook : {TRUE}, ext : {"ts"},
   mode : {420, 493}, module : AnyModuleKinds]

\* plugin sources: discovered ones, a file-system source built by hand, and a
\* source that names no file
AnySources ==
  {DiscoverSource(glob, 1) : glob \in Globs}
  \cup {[systemID |-> 1, friendlyName |-> 1, absPathAndFileName |-> 1],
        [systemID |-> 1, friendlyName |-> 1]}

Registrars ==
  {"shellFileRegistrar", "typeScriptFileRegistrar", "fileSystemPluginRegistrar"}

\* fileSystemPluginRegistrar takes a FileSystemPluginSource
RegistrarCalls ==
  {c \in [registrar : Registrars, source : AnySources, we : AnyFiles] :
     c.registrar = "fileSystemPluginRegistrar" =>
       isFileSystemPluginSource(c.source)}

RegistrarInit ==
  /\ fnIn \in RegistrarCalls
  /\ fnOut = Pending
  /\ plugins = <<>>
  /\ HooksOff
  /\ DiscOff
  /\ CtlOff
  /\ ShellOff

\* await shellFileRegistrar(options)(source)
RegisterShellFile ==
  /\ isPending(fnOut)
  /\ fnIn.registrar = "shellFileRegistrar"
  /\ fnOut' = shellFileRegistrar(fnIn.source, fnIn.we)
  /\ UNCHANGED <<fnIn, hookVars, discVars, ctlVars, shellVars>>

\* await typeScriptFileRegistrar(tsro)(source)
RegisterTypeScriptFile ==
  /\ isPending(fnOut)
  /\ fnIn.registrar = "typeScriptFileRegistrar"
  /\ fnOut' = typeScriptFileRegistrar(fnIn.source, fnIn.we)
  /\ UNCHANGED <<fnIn, hookVars, discVars, ctlVars, shellVars>>

\* await fileSystemPluginRegistrar(source, sfro, tsro)(source)
RegisterByExtension ==
  /\ isPending(fnOut)
  /\ fnIn.registrar = "fileSystemPluginRegistrar"
  /\ fnOut' = fileSystemPluginRegistrar(fnIn.source, fnIn.we)
  /\ UNCHANGED <<fnIn, hookVars, discVars, ctlVars, shellVars>>

RegistrarNext ==
  \/ RegisterShellFile
  \/ RegisterTypeScriptFile
  \/ RegisterByExtension

SpecRegistrar == RegistrarInit /\ [][RegistrarNext]_vars

Registered == ~isPending(fnOut)

\* the mode has an execute permission bit: owner, group or others
HasExecuteBit(mode) ==
  mode % 2 = 1 \/ (mode \div 8) % 2 = 1 \/ (mode \div 64) % 2 = 1

Diagnostics(r) == r.issues[1].diagnostics

\* C11: a file that is not .ts and whose mode has no execute permission bit
\* is registered as invalid, with the diagnostic "executable bit not set on
\* source": the registrar neither raises nor returns a plugin.
C11_NoExecuteBitIsInvalid ==
  Registered /\ fnIn.registrar = "fileSystemPluginRegistrar"
    /\ fnIn.we.ext # "ts" /\ fnIn.we.mode \in AllModes
    /\ ~HasExecuteBit(fnIn.we.mode) =>
      /\ ~isRaised(fnOut)
      /\ ~isValidPluginRegistration(fnOut)
      /\ isInvalidPluginRegistration(fnOut)
      /\ Diagnostics(fnOut) = <<"executable bit not set on source">>

C11_Witness ==
  /\ Registered
  /\ fnIn.registrar = "fileSystemPluginRegistrar"
  /\ fnIn.we.ext = "sh"
  /\ fnIn.we.mode = 420
  /\ isInvalidPluginRegistration(fnOut)

\* C12: a file that is not .ts and whose mode has an execute permission bit
\* for owner, group or others is registered as a valid plugin of nature
\* "shell-file-executable"; so is every such file when stat reports no mode.
C12_ExecutableIsValidShellPlugin ==
  LET executable ==
        \/ fnIn.we.mode = NullMode
        \/ fnIn.we.mode \in AllModes /\ HasExecuteBit(fnIn.we.mode)
  IN Registered /\ fnIn.registrar = "fileSystemPluginRegistrar"
       /\ fnIn.we.ext # "ts" /\ executable =>
         /\ isValidPluginRegistration(fnOut)
         /\ fnOut.plugin.nature = "shell-file-executable"

\* C13: a discovered .ts file that imports but whose default export is not a
\* function is registered as invalid with the diagnostic "does not have a
\* default function"; one whose default export is a function is registered
\* as a valid module plugin that carries the function as handler.
C13_DefaultExportMustBeFunction ==
  Registered /\ fnIn.registrar = "fileSystemPluginRegistrar"
    /\ fnIn.we.ext = "ts" /\ isDiscoverSource(fnIn.source) =>
      /\ fnIn.we.module = "notFunction" =>
           /\ isInvalidPluginRegistration(fnOut)
           /\ ~isValidPluginRegistration(fnOut)
           /\ Diagnostics(fnOut) = <<"does not have a default function">>
      /\ fnIn.we.module \in {"function", "asyncFunction"} =>
           /\ isValidPluginRegistration(fnOut)
           /\ ~isInvalidPluginRegistration(fnOut)
           /\ fnOut.plugin.nature = "deno-module"
           /\ fnOut.plugin.handler
           /\ fnOut.plugin.isAsync = (fnIn.we.module = "asyncFunction")

C13_Witness ==
  /\ Registered
  /\ fnIn.registrar = "fileSystemPluginRegistrar"
  /\ fnIn.we.ext = "ts"
  /\ fnIn.we.module = "notFunction"
  /\ isInvalidPluginRegistration(fnOut)
  /\ Diagnostics(fnOut) = <<"does not have a default function">>

\* the .ts files a module registrar can be given, with every kind of source
ModuleRegistrations ==
  {c \in [source : AnySources, we : AnyFiles] : c.we.ext = "ts"}

\* the import of the file throws, or the validation callback does
ModuleRegistrationThrows(c) ==
  /\ isFileSystemPluginSource(c.source)
  /\ c.we.module = "importFails" \/ ~isDiscoverSource(c.source)

ImportFailed(source) ==
  fsEntries[source.systemID].ext = "ts"
    /\ fsEntries[source.systemID].module = "importFails"

\* whatever throws inside the module registrar comes back as the diagnostic
\* of an invalid registration
ModuleRegistrarCatches ==
  \A c \in ModuleRegistrations :
    ModuleRegistrationThrows(c) =>
      LET r == typeScriptFileRegistrar(c.source, c.we)
      IN /\ ~isRaised(r)
         /\ isInvalidPluginRegistration(r)
         /\ ~isValidPluginRegistration(r)
         /\ Diagnostics(r) \in
              {<<"import error">>,
               <<"potential.source must be DiscoverFileSystemPluginSource">>}

\* C14: when the import of a .ts file or the validation callback throws, the
\* module registrar returns an invalid registration whose diagnostic is the
\* error and raises nothing; in a discovery pass the file is registered in
\* invalidPlugins only, the pass is not aborted, and every valid candidate,
\* before or after it, is in plugins when the pass is done.
C14_ImportErrorIsInvalidRegistration ==
  /\ ModuleRegistrarCatches
  /\ dPc # "rejected"
  /\ \A i \in 1..Len(plugins) : ~ImportFailed(plugins[i].source)
  /\ dPc = "done" =>
       /\ \A k \in 1..Len(Candidates) :
            ImportFailed([systemID |-> Candidates[k][2]]) =>
              \E i \in 1..Len(invalidPlugins) :
                /\ invalidPlugins[i].source.systemID = Candidates[k][2]
                /\ invalidPlugins[i].source.glob = hooksGlobs[Candidates[k][1]]
                /\ Diagnostics(invalidPlugins[i]) = <<"import error">>
       /\ SourcesOf(plugins) = GlobAndPath(ExpectedValid)

\* a finished pass that registered a valid hook after a .ts file whose import
\* failed
C14_Witness ==
  /\ dPc = "done"
  /\ \E i \in 1..Len(invalidPlugins), j \in 1..Len(plugins) :
       /\ ImportFailed(invalidPlugins[i].source)
       /\ Diagnostics(invalidPlugins[i]) = <<"import error">>
       /\ plugins[j].source.glob = invalidPlugins[i].source.glob
       /\ plugins[j].source.systemID > invalidPlugins[i].source.systemID

\* C15: whatever the source and whatever is at its path, each registrar
\* resolves to a valid or to an invalid registration and never raises.
C15_RegistrarsNeverRaise ==
  Registered =>
    /\ ~isRaised(fnOut)
    /\ isValidPluginRegistration(fnOut) \/ isInvalidPluginRegistration(fnOut)

(* ------------------------------------------------------------------ *)
(* Shell hooks: options, command lines and environments               *)
(* ------------------------------------------------------------------ *)
\* calls of validateHooks() in one run
MaxValidations == 2

\* shell hooks executed in one run
MaxSpawns == 2

\* An optional value is <<>> when it is undefined or null and <<v>> when it
\* is v.  A Record<string, string> is the list of its entries, <<key, value>>,
\* in insertion order.

\* an assignment that leaves a property that is already there as it is
RecordSetUnlessThere(record, key, value) ==
  IF \E i \in 1..Len(record) : record[i][1] = key THEN record
  ELSE Append(record, <<key, value>>)

\* record[key] = value
RecordSet(record, key, value) ==
  IF \E i \in 1..Len(record) : record[i][1] = key
  THEN [i \in 1..Len(record) |->
          IF record[i][1] = key THEN <<key, value>> ELSE record[i]]
  ELSE Append(record, <<key, value>>)

RECURSIVE customArgs(_, _, _)
\* for (let i = 0; i < an.length; i++) customArgs[an[i]] = av[i], up to i = n
customArgs(an, av, n) ==
  IF n = 0 THEN <<>>
  ELSE RecordSet(customArgs(an, av, n - 1), an[n], av[n])

\* schedule ? schedule.toString() : undefined
ScheduleOf(scheduleArg) ==
  IF scheduleArg # <<>> /\ scheduleArg[1] # "" THEN scheduleArg ELSE <<>>

\* the resolver, with isVerbose taken from --verbose alone
optionsVerboseFlagOnly(cli) ==
  [targets |-> cli.targets,
   schedule |-> ScheduleOf(cli.schedule),
   isDryRun |-> (IF cli.dryRun THEN TRUE ELSE FALSE),
   isVerbose |-> (IF cli.verbose THEN TRUE ELSE FALSE),
   arguments |-> IF Len(cli.arg) = Len(cli.argv)
                 THEN customArgs(cli.arg, cli.argv, Len(cli.arg)) ELSE <<>>]

\* publicationsControllerOptions(caller, cliArgs), and the constructor of
\* PublishCommandHandlerOptions, which resolves the same fields the same way
publicationsControllerOptions(cli) ==
  LET isDryRunArg == IF cli.dryRun THEN TRUE ELSE FALSE
  IN  [targets |-> cli.targets,
       schedule |-> ScheduleOf(cli.schedule),
       isDryRun |-> isDryRunArg,
       isVerbose |-> (isDryRunArg \/ (IF cli.verbose THEN TRUE ELSE FALSE)),
       arguments |-> IF Len(cli.arg) = Len(cli.argv)
                     THEN customArgs(cli.arg, cli.argv, Len(cli.arg))
                     ELSE <<>>]

\* "--arg and --argv must be balanced" is printed
isUnbalanced(cli) == Len(cli.arg) # Len(cli.argv)

\* the property names that are array indices, among those of the inputs
ArrayIndexes == 0..9

isArrayIndex(key) == \E n \in ArrayIndexes : ToString(n) = key

IndexValue(key) == CHOOSE n \in ArrayIndexes : ToString(n) = key

RECURSIVE indexEntries(_, _)
\* the entries at the positions S of the record, by ascending index
indexEntries(record, S) ==
  IF S = {} THEN <<>>
  ELSE LET i == CHOOSE i \in S : \A j \in S :
                  IndexValue(record[i][1]) <= IndexValue(record[j][1])
       IN  <<record[i]>> \o indexEntries(record, S \ {i})

\* Object.entries(record): the own properties in property order, which is
\* the array indices in ascending order, then the other names in insertion
\* order
ObjectEntries(record) ==
  indexEntries(record, {i \in 1..Len(record) : isArrayIndex(record[i][1])})
    \o SelectSeq(record, LAMBDA e : ~isArrayIndex(e[1]))

\* JSON.stringify of a Record<string, string>
stringify(record) ==
  LET own == ObjectEntries(record)
  IN  "{" \o join([i \in 1..Len(own) |->
                     "\"" \o own[i][1] \o "\":\"" \o own[i][2] \o "\""],
                  ",") \o "}"

RECURSIVE entries(_)
\* the name and the value of each entry, one after the other
entries(ownEntries) ==
  IF ownEntries = <<>> THEN <<>>
  ELSE <<ownEntries[1][1], ownEntries[1][2]>> \o entries(Tail(ownEntries))

\* path.basename and the absolute path of the discovered file
absPathAndFileName(source) ==
  "/project/" \o ToString(source.absPathAndFileName) \o ".hook-pubctl.sh"

basename(source) == ToString(source.absPathAndFileName) \o ".hook-pubctl.sh"

\* const cmd = ["/bin/sh", "-c", path] of isExecutable
isExecutableCmd(source) == <<"/bin/sh", "-c", absPathAndFileName(source)>>

\* safety.typeGuard("shellCmd", "envVars") on a plugin
isShellExePlugin(p) == p.nature = "shell-file-executable"

\* the step a context is for: pc.step (publish.ts), pc.command.proxyCmd
StepOf(pc) == IF "step" \in DOMAIN pc THEN pc.step ELSE pc.command.proxyCmd

\* pc.arguments || this.pco.arguments: an object, empty or not, is truthy
EffectiveArguments(options, pc) ==
  IF "arguments" \in DOMAIN pc THEN pc.arguments ELSE options.arguments

\* enhanceShellCmd(pc, suggestedCmd) of the plugins manager, and the
\* shellCmdEnhancer of publish.ts (whose contexts carry no arguments): the
\* command is built on a copy of suggestedCmd
enhanceShellCmd(options, pc, suggestedCmd) ==
  suggestedCmd \o <<StepOf(pc)>>
    \o (IF Len(options.targets) > 0 THEN options.targets ELSE <<>>)
    \o (IF options.isVerbose THEN <<"--verbose">> ELSE <<>>)
    \o (IF options.isDryRun THEN <<"--dry-run">> ELSE <<>>)
    \o entries(ObjectEntries(EffectiveArguments(options, pc)))

\* result[name] = value
EnvSet(result, name, value) == (name :> value) @@ result

\* the environment with ARGS_JSON taken from the options alone
prepareShellCmdEnvVarsOptionsArgs(options, pc) ==
  LET r0 == ("PUBCTLHOOK_LIFECYLE_STEP" :> StepOf(pc))
      r1 == EnvSet(r0, "PUBCTLHOOK_VERBOSE",
                   IF options.isVerbose THEN "1" ELSE "0")
      r2 == EnvSet(r1, "PUBCTLHOOK_DRY_RUN",
                   IF options.isDryRun THEN "1" ELSE "0")
      r3 == EnvSet(r2, "PUBCTLHOOK_NAME", basename(pc.plugin.source))
      r4 == IF options.schedule # <<>>
            THEN EnvSet(r3, "PUBCTLHOOK_SCHEDULE", options.schedule[1])
            ELSE r3
      r5 == IF Len(options.targets) > 0
            THEN EnvSet(r4, "PUBCTLHOOK_TARGETS", join(options.targets, " "))
            ELSE r4
  IN  IF Len(options.arguments) > 0
      THEN EnvSet(r5, "PUBCTLHOOK_ARGS_JSON", stringify(options.arguments))
      ELSE r5

\* prepareShellCmdEnvVars(pc, "PUBCTLHOOK_") of the plugins manager and the
\* envVarsSupplier of publish.ts, for the variables that depend on the step,
\* the plugin and the resolved options
prepareShellCmdEnvVars(options, pc) ==
  LET r0 == ("PUBCTLHOOK_LIFECYLE_STEP" :> StepOf(pc))
      r1 == EnvSet(r0, "PUBCTLHOOK_VERBOSE",
                   IF options.isVerbose THEN "1" ELSE "0")
      r2 == EnvSet(r1, "PUBCTLHOOK_DRY_RUN",
                   IF options.isDryRun THEN "1" ELSE "0")
      r3 == EnvSet(r2, "PUBCTLHOOK_NAME", basename(pc.plugin.source))
      r4 == IF options.schedule # <<>>
            THEN EnvSet(r3, "PUBCTLHOOK_SCHEDULE", options.schedule[1])
            ELSE r3
      r5 == IF Len(options.targets) > 0
            THEN EnvSet(r4, "PUBCTLHOOK_TARGETS", join(options.targets, " "))
            ELSE r4
      cmdArgs == EffectiveArguments(options, pc)
  IN  IF Len(cmdArgs) > 0
      THEN EnvSet(r5, "PUBCTLHOOK_ARGS_JSON", stringify(cmdArgs))
      ELSE r5


\* the array handed to the enhancer, after the call, had it pushed onto the
\* array itself
suggestedCmdPushedOnto(options, pc, suggestedCmd) ==
  enhanceShellCmd(options, pc, suggestedCmd)

\* the array handed to the enhancer, after the call: the enhancer pushes
\* onto const cmd = [...suggestedCmd], a copy
suggestedCmdAfter(options, pc, suggestedCmd) == suggestedCmd

\* plugin.shellCmd(pc): options.shellCmdEnhancer is always supplied by the
\* plugins manager
shellCmd(options, pc, suggestedCmd) ==
  enhanceShellCmd(options, pc, suggestedCmd)

\* plugin.envVars(pc)
envVars(options, pc) == prepareShellCmdEnvVars(options, pc)

\* execute(pc) that spawns the command as registered
executeCmdAsRegistered(options, pc, suggestedCmd) == suggestedCmd

\* the cmd of the runShellCommand call in plugin.execute(pc)
executeCmd(options, pc, suggestedCmd) ==
  enhanceShellCmd(options, pc, suggestedCmd)

\* the env of the runShellCommand call in plugin.execute(pc)
executeEnv(options, pc) == prepareShellCmdEnvVars(options, pc)

\* the context validateHooks() builds for a hook: step DOCTOR; the one of
\* the latest controller has persist functions that persist nothing
ValidateHooksContext(version, hook) ==
  IF version = "publish.ts"
  THEN [container |-> "this", plugin |-> hook, pubCtlCtx |-> "this",
        step |-> "doctor"]
  ELSE [container |-> "this", plugin |-> hook,
        command |-> [proxyCmd |-> "doctor"],
        persistTextArtifact |-> "undefined"]

\* the context executeHooks(step) of publish.ts builds for a hook
ExecuteHooksContext(hook, step) ==
  [container |-> "this", plugin |-> hook, pubCtlCtx |-> "this", step |-> step]

\* what validateHooks() prints for plugin i
HookReport(version, options, base, i) ==
  LET hook == plugins[i]
      pc == ValidateHooksContext(version, hook)
  IN  IF isShellExePlugin(hook)
      THEN [friendlyName |-> hook.source.friendlyName, nature |-> hook.nature,
            envVars |-> envVars(options, pc),
            shellCmd |-> join(shellCmd(options, pc, base[i]), " ")]
      ELSE [friendlyName |-> hook.source.friendlyName, nature |-> hook.nature,
            isAsync |-> hook.isAsync]

\* what validateHooks() prints for an invalid registration
InvalidReport(ipr) ==
  [systemID |-> ipr.source.systemID,
   diagnostics |-> [k \in 1..Len(ipr.issues) |-> ipr.issues[k].diagnostics]]

(* ---- inputs ---- *)
ControllerVersions == {"publish.ts", "controller"}

\* what docopt hands to the option resolver
ArgPairs ==
  {<< <<>>, <<>> >>, << <<"k1">>, <<"v1">> >>,
   << <<"k2", "k1">>, <<"v2", "v1">> >>,
   << <<"k1", "k1">>, <<"v1", "v2">> >>, << <<"k1">>, <<>> >>,
   << <<"2", "1">>, <<"b", "a">> >>}

DocOptions ==
  {[verbose |-> v, dryRun |-> d, schedule |-> s, targets |-> t,
    arg |-> a[1], argv |-> a[2]] :
     v \in BOOLEAN, d \in BOOLEAN, s \in {<<>>, <<"">>, <<"@daily">>},
     t \in {<<>>, <<"t1">>, <<"t2", "t1">>}, a \in ArgPairs}

ShellHook(path) ==
  shellFileRegistrar(DiscoverSource("*.hook-pubctl.*", path),
                     [mode |-> 493]).plugin

ModuleHook(path) ==
  isValidModule(DiscoverSource("*.hook-pubctl.*", path),
                [module |-> "function"]).plugin

\* the outcome of a discovery: plugins and invalidPlugins
Discoveries ==
  {[plugins |-> <<ShellHook(1), ModuleHook(2)>>,
    invalidPlugins |->
      <<InvalidRegistration(DiscoverSource("*.hook-pubctl.*", 3),
                            "executable bit not set on source")>>],
   [plugins |-> <<ShellHook(2), ShellHook(1)>>, invalidPlugins |-> <<>>]}

\* the steps hooks are executed for in this part
ShellSteps == {"doctor", "build"}

\* contexts shellCmd and envVars can be called with: the ones the two
\* controllers build and, for the latest, ones carrying their own arguments
ShellContexts(version, hook) ==
  IF version = "publish.ts"
  THEN {ExecuteHooksContext(hook, step) : step \in ShellSteps}
  ELSE {[container |-> "this", plugin |-> hook,
         command |-> [proxyCmd |-> step],
         persistTextArtifact |-> "persist"] : step \in ShellSteps}
       \cup
       {[container |-> "this", plugin |-> hook,
         command |-> [proxyCmd |-> step],
         persistTextArtifact |-> "persist", arguments |-> a] :
          step \in ShellSteps, a \in {<<>>, << <<"k3", "v3">> >>}}

ShellInit ==
  /\ fnIn \in [version : ControllerVersions, cli : DocOptions]
  /\ fnOut = Pending
  /\ \E d \in Discoveries :
       /\ plugins = d.plugins
       /\ invalidPlugins = d.invalidPlugins
       /\ baseCmd = [i \in 1..Len(d.plugins) |->
                       IF isShellExePlugin(d.plugins[i])
                       THEN isExecutableCmd(d.plugins[i].source) ELSE <<>>]
  /\ pco = Pending
  /\ stdout = <<>>
  /\ spawned = <<>>
  /\ HooksOff
  /\ fsEntries = <<>>
  /\ hooksGlobs = <<"*.hook-pubctl.*">>
  /\ dPc = "done"
  /\ dGlob = 0
  /\ dWalk = 0
  /\ CtlOff

ctlVarsButStderr ==
  <<cliArgs, ctlClass, isDryRun, initOutcome, hugoBuildResults, files,
    execInfoCommand, chains,
    turn, log, unhandledRejections, cliPc, exited, exitCode>>

\* publicationsControllerOptions(caller, cliArgs) / new
\* PublishCommandHandlerOptions(chsOptions, cliOptions)
ResolveOptions ==
  /\ isPending(pco)
  /\ pco' = publicationsControllerOptions(fnIn.cli)
  /\ stderr' = IF isUnbalanced(fnIn.cli)
               THEN Append(stderr, "--arg and --argv must be balanced")
               ELSE stderr
  /\ UNCHANGED <<baseCmd, stdout, spawned, hookVars, discVars,
                 ctlVarsButStderr, fnVars>>

\* validateHooks()
ValidateHooks ==
  /\ ~isPending(pco)
  /\ Len(stdout) < MaxValidations
  /\ stdout' = Append(stdout,
       [globs |-> hooksGlobs,
        hooks |-> [i \in 1..Len(plugins) |->
                     HookReport(fnIn.version, pco, baseCmd, i)],
        invalid |-> [j \in 1..Len(invalidPlugins) |->
                       InvalidReport(invalidPlugins[j])]])
  /\ baseCmd' = [i \in 1..Len(plugins) |->
                   IF isShellExePlugin(plugins[i])
                   THEN suggestedCmdAfter(pco,
                          ValidateHooksContext(fnIn.version, plugins[i]),
                          baseCmd[i])
                   ELSE baseCmd[i]]
  /\ UNCHANGED <<pco, spawned, hookVars, discVars, ctlVars, fnVars>>

\* hook.execute(pc) of executeHooks(step), for the shell plugin i of publish.ts
ExecuteShellHook(i, step) ==
  /\ ~isPending(pco)
  /\ fnIn.version = "publish.ts"
  /\ Len(spawned) < MaxSpawns
  /\ isShellExePlugin(plugins[i])
  /\ LET pc == ExecuteHooksContext(plugins[i], step)
     IN  /\ spawned' = Append(spawned,
               [hook |-> i, step |-> step,
                cmd |-> executeCmd(pco, pc, baseCmd[i]),
                env |-> executeEnv(pco, pc)])
         /\ baseCmd' = [baseCmd EXCEPT ![i] = suggestedCmdAfter(pco, pc, @)]
  /\ UNCHANGED <<pco, stdout, hookVars, discVars, ctlVars, fnVars>>

ExecuteShellHooks ==
  \E i \in 1..Len(plugins), step \in ShellSteps : ExecuteShellHook(i, step)

\* hook.shellCmd(pc) and hook.envVars(pc), for one shell plugin and context
ShellCmdAndEnvVars ==
  /\ ~isPending(pco)
  /\ isPending(fnOut)
  /\ \E i \in 1..Len(plugins) :
       /\ isShellExePlugin(plugins[i])
       /\ \E pc \in ShellContexts(fnIn.version, plugins[i]) :
            /\ fnOut' = [hook |-> i, pc |-> pc,
                         cmd |-> shellCmd(pco, pc, baseCmd[i]),
                         env |-> envVars(pco, pc)]
            /\ baseCmd' = [baseCmd EXCEPT ![i] = suggestedCmdAfter(pco, pc, @)]
  /\ UNCHANGED <<fnIn, pco, stdout, spawned, hookVars, discVars, ctlVars>>

ShellNext ==
  \/ ResolveOptions
  \/ ValidateHooks
  \/ ExecuteShellHooks
  \/ ShellCmdAndEnvVars

SpecShellHooks == ShellInit /\ [][ShellNext]_vars


\* C16: validateHooks() only inspects.  A step that prints a report calls no
\* execute or handler, spawns no process, persists no file and leaves
\* plugins, invalidPlugins and every plugin's base command vector as they
\* were; and all the reports of a run are the same, command lines and
\* environment variables included.
C16_ValidateHooksIsReadOnly ==
  /\ [](\A m \in 1..Len(stdout) : \A n \in 1..Len(stdout) :
          stdout[m] = stdout[n])
  /\ [][stdout' # stdout =>
          /\ plugins' = plugins
          /\ invalidPlugins' = invalidPlugins
          /\ baseCmd' = baseCmd
          /\ spawned' = spawned
          /\ calls' = calls
          /\ files' = files]_vars

C16_Witness ==
  /\ Len(stdout) = 2
  /\ \E i \in 1..Len(plugins) : isShellExePlugin(plugins[i])
  /\ Len(pco.arguments) > 0
  /\ invalidPlugins # <<>>


\* C17: what validateHooks() reports for a shell plugin is what executing
\* the DOCTOR step spawns it with: the printed command line is the spawned
\* argument vector joined by spaces, and the printed environment is the
\* spawned environment.
C17_ReportedIsWhatDoctorSpawns ==
  \A r \in 1..Len(stdout) : \A s \in 1..Len(spawned) :
    spawned[s].step = "doctor" =>
      /\ stdout[r].hooks[spawned[s].hook].shellCmd
           = join(spawned[s].cmd, " ")
      /\ stdout[r].hooks[spawned[s].hook].envVars = spawned[s].env

C17_Witness ==
  /\ Len(stdout) > 0
  /\ \E s \in 1..Len(spawned) : spawned[s].step = "doctor"
  /\ Len(pco.arguments) > 0
  /\ pco.isDryRun
  /\ pco.targets # <<>>


\* C18: shellCmd(ctx) of a shell plugin is "/bin/sh", "-c", the absolute
\* path of the hook, then the step, then the targets in their order, then
\* "--verbose" exactly when isVerbose, then "--dry-run" exactly when
\* isDryRun, then the name and the value of every custom argument in
\* insertion order, the arguments being those of the context when it has
\* some and those of the options otherwise; and nothing else.
C18_ShellCmdLayout ==
  ~isPending(fnOut) =>
    LET cmd == fnOut.cmd
        pc == fnOut.pc
        step == IF fnIn.version = "publish.ts" THEN pc.step
                ELSE pc.command.proxyCmd
        args == IF "arguments" \in DOMAIN pc THEN pc.arguments
                ELSE pco.arguments
        nT == Len(pco.targets)
        nV == IF pco.isVerbose THEN 1 ELSE 0
        nD == IF pco.isDryRun THEN 1 ELSE 0
        fixed == 4 + nT + nV + nD
    IN  /\ Len(cmd) = fixed + 2 * Len(args)
        /\ cmd[1] = "/bin/sh"
        /\ cmd[2] = "-c"
        /\ cmd[3] = absPathAndFileName(plugins[fnOut.hook].source)
        /\ cmd[4] = step
        /\ \A k \in 1..nT : cmd[4 + k] = pco.targets[k]
        /\ pco.isVerbose => cmd[4 + nT + 1] = "--verbose"
        /\ pco.isDryRun => cmd[4 + nT + nV + 1] = "--dry-run"
        /\ \A k \in 1..Len(args) :
             /\ cmd[fixed + 2 * k - 1] = args[k][1]
             /\ cmd[fixed + 2 * k] = args[k][2]


ShellArgvs ==
  {spawned[s].cmd : s \in 1..Len(spawned)}
    \cup (IF isPending(fnOut) THEN {} ELSE {fnOut.cmd})

C20_VerboseWithoutDryRun ==
  /\ ~isPending(pco)
  /\ pco.isVerbose /\ ~pco.isDryRun


(* ------------------------------------------------------------------ *)
(* The hook globs of the options, and the discovery they lead to      *)
(* ------------------------------------------------------------------ *)
defaultHookGlobs == <<"*.hook-pubctl.*">>

RECURSIVE unshiftMissing(_, _, _)
\* defaultHookGlobs.forEach((dg) => { if (!hooksGlobs.find((hg) => hg == dg))
\* hooksGlobs.unshift(dg) }), from the n-th default glob on
unshiftMissing(defaults, n, globs) ==
  IF n > Len(defaults) THEN globs
  ELSE unshiftMissing(defaults, n + 1,
         IF \E i \in 1..Len(globs) : globs[i] = defaults[n] THEN globs
         ELSE <<defaults[n]>> \o globs)

\* the resolver pushing a missing default glob at the end
hooksGlobsDefaultLast(hooksArg) ==
  IF \E i \in 1..Len(hooksArg) : hooksArg[i] = defaultHookGlobs[1]
  THEN hooksArg ELSE hooksArg \o defaultHookGlobs

\* hooksGlobs of publicationsControllerOptions(caller, cliArgs)
hooksGlobsOf(hooksArg) == unshiftMissing(defaultHookGlobs, 1, hooksArg)

\* files of a project in which every hook registers
ProjectFiles ==
  {we \in WalkEntries :
     we.isFile /\ (we.ext = "sh" => we.mode = 493)
               /\ (we.ext = "ts" => we.module = "function")}

HooksGlobsInit ==
  /\ fnIn \in [hooks : SeqsUpTo(Globs, MaxGlobs)]
  /\ fnOut = Pending
  /\ fsEntries \in SeqsUpTo(ProjectFiles, MaxEntries)
  /\ hooksGlobs = <<>>
  /\ dPc = "off"
  /\ dGlob = 0
  /\ dWalk = 0
  /\ plugins = <<>>
  /\ invalidPlugins = <<>>
  /\ HooksOff
  /\ CtlOff
  /\ ShellOff

\* publicationsControllerOptions(caller, cliArgs), as far as the globs go;
\* the plugins manager is then constructed with pco.hooksGlobs
ResolveHooksGlobs ==
  /\ dPc = "off"
  /\ hooksGlobs' = hooksGlobsOf(fnIn.hooks)
  /\ dPc' = "idle"
  /\ UNCHANGED <<fsEntries, dGlob, dWalk, plugins, invalidPlugins>>
  /\ UNCHANGED <<hookRunVars, ctlVars, fnVars, shellVars>>

HooksGlobsNext ==
  \/ ResolveHooksGlobs
  \/ PluginsManagerInit
  \/ DiscoverWalkEntry
  \/ DiscoverDone

SpecHooksGlobs == HooksGlobsInit /\ [][HooksGlobsNext]_vars

\* the resolved globs are the CLI globs, with the default glob put in front
\* when the CLI globs did not have it
DefaultGlobUnshifted ==
  dPc # "off" =>
    IF \E i \in 1..Len(fnIn.hooks) : fnIn.hooks[i] = "*.hook-pubctl.*"
    THEN hooksGlobs = fnIn.hooks
    ELSE /\ Len(hooksGlobs) = Len(fnIn.hooks) + 1
         /\ hooksGlobs[1] = "*.hook-pubctl.*"
         /\ \A i \in 1..Len(fnIn.hooks) : hooksGlobs[i + 1] = fnIn.hooks[i]

\* the plugins discovered under the default glob come before the others
DefaultGlobHooksFirst ==
  \A i \in 1..Len(plugins) : \A j \in 1..Len(plugins) :
    /\ plugins[i].source.glob = "*.hook-pubctl.*"
    /\ plugins[j].source.glob # "*.hook-pubctl.*"
    => i < j

DefaultGlobOnlyInFront ==
  /\ hooksGlobs # <<>>
  /\ hooksGlobs[1] = "*.hook-pubctl.*"
  /\ \A i \in 2..Len(hooksGlobs) : hooksGlobs[i] # "*.hook-pubctl.*"

C22_UnbalancedArgsLeaveMapEmpty ==
  ~isPending(pco) =>
    LET an == fnIn.cli.arg
        av == fnIn.cli.argv
        args == pco.arguments
    IN  /\ ~isRaised(pco)
        /\ Len(an) # Len(av) =>
             /\ args = <<>>
             /\ stderr = <<"--arg and --argv must be balanced">>
        /\ Len(an) = Len(av) =>
             /\ stderr = <<>>
             /\ {args[k][1] : k \in 1..Len(args)} = Range(an)
             /\ Cardinality(Range(an)) = Len(args)
             /\ \A k \in 1..Len(args) :
                  \E i \in 1..Len(an) :
                    /\ an[i] = args[k][1]
                    /\ av[i] = args[k][2]
                    /\ \A j \in (i + 1)..Len(an) : an[j] # an[i]

C22_Witness ==
  /\ ~isPending(pco)
  /\ Len(fnIn.cli.arg) = 1
  /\ Len(fnIn.cli.argv) = 0
  /\ stderr # <<>>


\* C23 as stated: under dry-run clean deletes none of go.sum, public and
\* resources, and by the time it resolves it has printed the rm of each of
\* the three.
C23_DryRunCleanAnnouncesEveryTarget ==
  isDryRun =>
    /\ \A f \in Range(CleanTargets) : ~Happened("rm", f, 0)
    /\ Happened("return", "clean", 0) =>
         \A f \in Range(CleanTargets) : Happened("rm -f", f, 0)

\* C23, amended: under dry-run clean deletes none of go.sum, public and
\* resources, and by the time it resolves it has printed the rm of each of
\* the three that exists; for one that does not exist nothing is printed.
C23_DryRunCleanAnnouncesExistingTargets ==
  isDryRun =>
    /\ \A f \in Range(CleanTargets) : ~Happened("rm", f, 0)
    /\ \A f \in Range(CleanTargets) : Happened("rm -f", f, 0) => f \in files
    /\ Happened("return", "clean", 0) =>
         \A f \in Range(CleanTargets) :
           Happened("rm -f", f, 0) <=> f \in files

C23_Witness ==
  /\ isDryRun
  /\ Happened("return", "clean", 0)
  /\ \A f \in Range(CleanTargets) : Happened("rm -f", f, 0) /\ f \in files


\* C24: under dry-run no step of the controller creates or deletes a file.
C24_DryRunTouchesNoFile == [][isDryRun => files' = files]_vars


\* C25: once the options record is constructed no step changes anything
\* reachable from it, its metrics included.
C25_OptionsNeverMutated == [][~isPending(pco) => pco' = pco]_vars

(* ------------------------------------------------------------------ *)
(* The inspect command                                                *)
(* ------------------------------------------------------------------ *)
\* the command line is pubctl inspect ..., not pubctl hugo inspect
InspectCommand == "inspect" \in cliArgs /\ "hugo" \notin cliArgs

\* some hook has been dispatched to, whatever the step
AnyHookDispatched == \E e \in log : e.ev \in {"dispatch", "hookStart"}

InspectListings == {"inspectPublications", "inspectPublishableModules"}

\* the listing the command line asks for, if any
InspectListingAsked ==
  IF "publications" \in cliArgs THEN {"inspectPublications"}
  ELSE IF "publishable-modules" \in cliArgs
         THEN {"inspectPublishableModules"} ELSE {}

\* C26: pubctl inspect publications and pubctl inspect publishable-modules
\* print their listing and dispatch no hook; any other pubctl inspect
\* dispatches the INSPECT step to the hooks; in the three cases the inspect
\* handler is the one that reports the command as handled, once inspect()
\* has resolved.
C26_InspectListingsDispatchNoHook ==
  InspectCommand =>
    /\ \A l \in InspectListings :
         Happened("sync", l, 0) => l \in InspectListingAsked
    /\ InspectListingAsked # {} =>
         /\ ~AnyHookDispatched
         /\ Happened("return", "inspect", 0) =>
              \A l \in InspectListingAsked : Happened("sync", l, 0)
    /\ InspectListingAsked = {} =>
         /\ Happened("return", "inspect", 0) =>
              Happened("dispatch", "inspect", 0) /\ HooksCompleted("inspect")
         /\ \A e \in log : e.ev = "dispatch" => e.what = "inspect"
    /\ \A e \in log : e.ev = "handledBy" =>
         e.what = "inspectHandler" /\ Happened("return", "inspect", 0)
    /\ \A k \in 1..Len(stderr) : stderr[k].by # "console.error"
    /\ Happened("finalize", "", 0) => Happened("handledBy", "inspectHandler", 0)

C26_Witness ==
  /\ "publications" \in cliArgs
  /\ Happened("handledBy", "inspectHandler", 0)
  /\ Happened("sync", "inspectPublications", 0)
  /\ ActionPluginIdx # {}

(* ------------------------------------------------------------------ *)
(* build prepare and build finalize                                   *)
(* ------------------------------------------------------------------ *)
\* the step has been dispatched: pluginsMgr.execute was entered, or one of
\* the hooks has been started for it
Dispatched(step) ==
  \E e \in log : e.ev \in {"dispatch", "hookStart"} /\ e.what = step

\* C27: when BUILD_PREPARE is dispatched to the hooks, buildPrepare has
\* already written the health artifact, with the status fail, and the file
\* is there.
C27_UnhealthyStoredBeforeBuildPrepareHooks ==
  Dispatched("build-prepare") =>
    /\ Happened("write", "health.json", 0)
    /\ Happened("health", "fail", 0)
    /\ ~Happened("health", "pass", 0)
    /\ "health.json" \in files

C27_Witness ==
  /\ \E i \in ActionPluginIdx : Happened("hookStart", "build-prepare", i)
  /\ Happened("health", "fail", 0)
  /\ "metrics.prom" \notin files

\* the copy loop of buildFinalize has published the file
Copied(f) == Happened("copy", f, 0)

BuildFinalizeCopies ==
  {<<HealthFile, htmlDestHome>>,
   <<TemplateMetricsCsvFile, observabilityHtmlDestHome>>}

\* C28: buildFinalize parses the report first; records the metrics and
\* writes the template-metrics CSV only when the report is valid; writes the
\* health artifact after that; dispatches BUILD_FINALIZE once the health
\* artifact is written; and copies the health file and the CSV only when
\* every hook has completed, each only if its source and the directory it
\* goes to exist.
C28_BuildFinalizeOrder ==
  {"build", "finalize"} \subseteq cliArgs =>
    /\ Happened("merge", "hugoBuildResults", 0) =>
         /\ Happened("sync", "parseHugoBuildResults", 0)
         /\ isValidHugoBuildResults(hugoBuildResults)
    /\ Happened("write", TemplateMetricsCsvFile, 0) =>
         Happened("merge", "hugoBuildResults", 0)
    /\ Happened("write", HealthFile, 0) =>
         /\ Happened("sync", "parseHugoBuildResults", 0)
         /\ Happened("health", "pass", 0)
         /\ isValidHugoBuildResults(hugoBuildResults) =>
              Happened("write", TemplateMetricsCsvFile, 0)
    /\ Dispatched("build-finalize") => Happened("write", HealthFile, 0)
    /\ \A c \in BuildFinalizeCopies :
         /\ Copied(c[1]) =>
              /\ HooksCompleted("build-finalize")
              /\ Happened("dispatch", "build-finalize", 0)
              /\ c[1] \in files /\ c[2] \in files
              /\ (c[2] \o "/" \o c[1]) \in files
         /\ Happened("return", "buildFinalize", 0) /\ ~Copied(c[1]) =>
              c[1] \notin files \/ c[2] \notin files
    /\ Happened("return", "buildFinalize", 0) =>
         HooksCompleted("build-finalize")

C28_Witness ==
  /\ Happened("return", "buildFinalize", 0)
  /\ isValidHugoBuildResults(hugoBuildResults)
  /\ Copied(HealthFile) /\ Copied(TemplateMetricsCsvFile)
  /\ Cardinality(ActionPluginIdx) >= 2

(* ------------------------------------------------------------------ *)
(* Plugins registered by the program, and the discovered ones         *)
(* ------------------------------------------------------------------ *)
\* hicsp.pubCtlHook of plugins/hugo-init-convenience-scripts.ts
pubCtlHook ==
  [source |-> [systemID |-> "github.com/shah/hugo-aide/plugins/hugo-init-convenience-scripts.ts",
               friendlyName |-> "hugo-aide/plugins/hugo-init-convenience-scripts.ts"],
   nature |-> "deno-pubctl-hook", execute |-> TRUE, handler |-> FALSE,
   isAsync |-> FALSE]

\* the plugin of the registration of plugins/inspect-project-common.ts, whose
\* default export is a function
inspectProjectCommon ==
  [source |-> [systemID |-> "./plugins/inspect-project-common.ts",
               friendlyName |-> "stdlib:plugins/inspect-project-common.ts"],
   nature |-> "deno-module-function", execute |-> TRUE, handler |-> FALSE,
   isAsync |-> FALSE]

\* this.pluginsMgr.registerValidPlugin(vpr): the plugin joins the list
registerValidPlugin(list, vpr) == Append(list, vpr.plugin)

\* the two owners of a plugins manager: the command handler context of
\* publish.ts, whose manager registers inspect-project-common at the end of
\* init(), and SitePublController, which registers pubCtlHook in its
\* constructor
PluginsManagerOwners == {"PublishCommandHandlerContext", "SitePublController"}

\* the state once the owner is constructed; init() has not been called
ProgramPluginsInit ==
  /\ ctlClass \in PluginsManagerOwners
  /\ plugins = IF ctlClass = "SitePublController"
               THEN registerValidPlugin(<<>>, [plugin |-> pubCtlHook,
                                               source |-> pubCtlHook.source])
               ELSE <<>>
  /\ fsEntries \in SeqsUpTo(ProjectFiles, MaxEntries)
  /\ hooksGlobs \in SeqsUpTo(Globs, MaxGlobs)
  /\ dPc = "idle"
  /\ dGlob = 0
  /\ dWalk = 0
  /\ invalidPlugins = <<>>
  /\ enhance = FALSE
  /\ ehStep = "none"
  /\ ehPc = "off"
  /\ ehIdx = 0
  /\ ctxSeq = 0
  /\ calls = <<>>
  /\ running = {}
  /\ floating = {}
  /\ notAction = <<>>
  /\ failed = {}
  /\ unhandled = {}
  /\ cliArgs = {}
  /\ isDryRun = FALSE
  /\ initOutcome = "ok"
  /\ hugoBuildResults = FileNotFound
  /\ files = {}
  /\ execInfoCommand = <<>>
  /\ chains = <<>>
  /\ turn = <<>>
  /\ log = {}
  /\ stderr = <<>>
  /\ unhandledRejections = {}
  /\ cliPc = "off"
  /\ exited = FALSE
  /\ exitCode = 0
  /\ FnOff
  /\ ShellOff

\* the rest of init() once discoverFileSystemPlugins has resolved: the
\* manager of publish.ts registers inspect-project-common and pushes its
\* plugin; that of the controller has nothing more to do
PluginsManagerInitResolves ==
  /\ dPc = "done"
  /\ dPc' = "initialized"
  /\ plugins' = IF ctlClass = "PublishCommandHandlerContext"
                THEN Append(plugins, inspectProjectCommon)
                ELSE plugins
  /\ ehPc' = "idle"
  /\ UNCHANGED <<fsEntries, hooksGlobs, dGlob, dWalk, invalidPlugins>>
  /\ UNCHANGED <<enhance, ehStep, ehIdx, ctxSeq, calls, running, floating,
                 notAction, failed, unhandled>>
  /\ UNCHANGED <<ctlVars, fnVars, shellVars>>

ProgramPluginsNext ==
  \/ PluginsManagerInit
  \/ DiscoverWalkEntry
  \/ DiscoverDone
  \/ PluginsManagerInitResolves
  \/ \E step \in HookLifecycleStep : ExecuteHooksCall(step)
  \/ ExecuteHooksDispatch
  \/ ExecuteHooksAwaited
  \/ ExecuteHooksReturn

SpecProgramPlugins == ProgramPluginsInit /\ [][ProgramPluginsNext]_vars

\* the plugin did not come out of discoverFileSystemPlugins
isProgrammatic(p) == ~isDiscoverSource(p.source)

\* in the list no plugin registered by the program precedes a discovered one
ProgrammaticPluginsLast(list) ==
  \A i, j \in 1..Len(list) :
    isProgrammatic(list[i]) /\ ~isProgrammatic(list[j]) => j < i

\* the plugins in the order their execute was called
ExecutedPlugins == [k \in 1..Len(calls) |-> plugins[calls[k].hook]]

\* C29: the plugins the program registers are after every discovered plugin
\* in the plugins list, and at every step they are executed after them.
C29_ProgrammaticPluginsAfterDiscovered ==
  /\ ProgrammaticPluginsLast(plugins)
  /\ ProgrammaticPluginsLast(ExecutedPlugins)

\* the same for the manager of publish.ts alone
C29_InitRegistersBuiltInLast ==
  ctlClass = "PublishCommandHandlerContext" =>
    /\ ProgrammaticPluginsLast(plugins)
    /\ ProgrammaticPluginsLast(ExecutedPlugins)
    /\ dPc = "initialized" => plugins[Len(plugins)] = inspectProjectCommon

(* ------------------------------------------------------------------ *)
(* Properties of parseHugoBuildResults                                *)
(* ------------------------------------------------------------------ *)
\* the lines of the report that are rows of the template metrics table
TemplateMetricsRows ==
  {n \in 1..Len(fnIn.lines) : isTemplateMetricsRow(fnIn.lines[n])}

\* the report is a file that has a line "Total in N ms"
HasBuildTime ==
  /\ fnIn.kind = "file"
  /\ \E n \in 1..Len(fnIn.lines) : isBuildTimeLine(fnIn.lines[n])

C32_PromiseOfModuleHookAwaited ==
  \A i \in running :
    isHookModulePlugin(plugins[i]) /\ plugins[i].promise =>
      \A c \in 1..Len(calls) : calls[c].hook <= i

(* ------------------------------------------------------------------ *)
(* publish.ts: CLI() over custom and common handlers                  *)
(* ------------------------------------------------------------------ *)
MaxCustomHandlers == 2

\* publish.ts commonHandlers, each with the cliOptions keys it tests.
publishCommonHandlers ==
  << [name |-> "validateHooksHandler", keys |-> {"validate", "hooks"}],
     [name |-> "inspectHandler", keys |-> {"inspect"}],
     [name |-> "lintHandler", keys |-> {"lint"}],
     [name |-> "buildHandler", keys |-> {"build"}],
     [name |-> "generateHandler", keys |-> {"generate"}],
     [name |-> "cleanHandler", keys |-> {"clean"}],
     [name |-> "doctorHandler", keys |-> {"doctor"}],
     [name |-> "updateHandler", keys |-> {"update"}],
     [name |-> "versionHandler", keys |-> {"version"}] >>

\* The parsed cliOptions: the keys docopt set to true.  "custom" is a command
\* of the caller's own docoptSpec that no common handler knows.
PublishCliOptions ==
  {publishCommonHandlers[h].keys : h \in DOMAIN publishCommonHandlers}
    \cup {{"custom"}}

\* A custom handler is given by what it returns: true, or void (FALSE).
PublishCLIInputs ==
  [customHandlers : UNION {[1..n -> BOOLEAN] : n \in 0..MaxCustomHandlers},
   cliOptions : PublishCliOptions]

PublishCLIInit ==
  /\ fnIn \in PublishCLIInputs
  /\ fnOut = [pc |-> IF Len(fnIn.customHandlers) = 0 THEN "common" ELSE "custom",
              i |-> 1, handled |-> FALSE, invoked |-> <<>>, stderr |-> <<>>]
  /\ plugins = <<>>
  /\ HooksOff
  /\ DiscOff
  /\ CtlOff
  /\ ShellOff

Invoked(kind, name, returned) ==
  [kind |-> kind, name |-> name, returned |-> returned]

\* for (const handler of customHandlers) { handled = await handler(context);
\* if (handled) break; }
PublishCustomHandler ==
  /\ fnOut.pc = "custom"
  /\ LET returned == fnIn.customHandlers[fnOut.i]
         last == returned \/ fnOut.i = Len(fnIn.customHandlers)
     IN fnOut' = [fnOut EXCEPT
                    !.handled = returned,
                    !.invoked = Append(@, Invoked("custom", "custom", returned)),
                    !.pc = IF last THEN "common" ELSE "custom",
                    !.i = IF last THEN 1 ELSE @ + 1]
  /\ UNCHANGED <<fnIn, hookVars, discVars, ctlVars, shellVars>>

\* for (const handler of commonHandlers) { handled = await handler(context);
\* if (handled) break; }
PublishCommonHandler ==
  /\ fnOut.pc = "common"
  /\ LET h == publishCommonHandlers[fnOut.i]
         returned == h.keys \subseteq fnIn.cliOptions
         last == returned \/ fnOut.i = Len(publishCommonHandlers)
     IN fnOut' = [fnOut EXCEPT
                    !.handled = returned,
                    !.invoked = Append(@, Invoked("common", h.name, returned)),
                    !.pc = IF last THEN "report" ELSE "common",
                    !.i = IF last THEN 1 ELSE @ + 1]
  /\ UNCHANGED <<fnIn, hookVars, discVars, ctlVars, shellVars>>

\* if (!handled) { console.error("Unable to handle validly parsed
\* docoptSpec:"); console.dir(cliOptions); }
PublishUnableToHandle ==
  /\ fnOut.pc = "report"
  /\ fnOut' = [fnOut EXCEPT
                 !.pc = "done",
                 !.stderr = IF fnOut.handled THEN @
                            ELSE Append(@, "Unable to handle validly parsed docoptSpec:")]
  /\ UNCHANGED <<fnIn, hookVars, discVars, ctlVars, shellVars>>

PublishCLINext ==
  \/ PublishCustomHandler
  \/ PublishCommonHandler
  \/ PublishUnableToHandle

SpecPublishCLI == PublishCLIInit /\ [][PublishCLINext]_vars

\* C33: a parsed command is handled by at most one handler: once a custom
\* handler has returned true no common handler is invoked, and "Unable to
\* handle validly parsed docoptSpec" is printed only if no handler at all
\* returned true.
C33_HandledByAtMostOneHandler ==
  "invoked" \in DOMAIN fnOut =>
    LET returnedTrue == {k \in DOMAIN fnOut.invoked : fnOut.invoked[k].returned}
    IN /\ (\E k \in returnedTrue : fnOut.invoked[k].kind = "custom") =>
            \A k \in DOMAIN fnOut.invoked : fnOut.invoked[k].kind # "common"
       /\ fnOut.stderr # <<>> => returnedTrue = {}

(* ------------------------------------------------------------------ *)
(* Controller CLI(): one handler per invocation, then finalize        *)
(* ------------------------------------------------------------------ *)
\* the handlers CLI() assigned to handledBy
HandledBy == {e.what : e \in {x \in log : x.ev = "handledBy"}}

\* the compound commands and the handler that is specific to each
CompoundCommands ==
  {[keys |-> {"hugo", "clean"}, handler |-> "hugoCleanHandler"],
   [keys |-> {"hugo", "inspect"}, handler |-> "hugoInspectHandler"],
   [keys |-> {"observability", "clean"}, handler |-> "observabilityHandler"]}

UnableToHandle ==
  \E k \in 1..Len(stderr) :
    /\ stderr[k].by = "console.error"
    /\ stderr[k].message = "Unable to handle validly parsed docoptSpec"

ErrorRaised ==
  \/ \E k \in 1..Len(stderr) : stderr[k].by = "catch"
  \/ unhandledRejections # {}

C35_HealthyOnlyWithValidBuildResults ==
  /\ Dispatched("build-prepare") => Happened("health", "fail", 0)
  /\ Happened("health", "pass", 0) => isValidHugoBuildResults(hugoBuildResults)

(* ------------------------------------------------------------------ *)
(* observability clean and the metrics file                           *)
(* ------------------------------------------------------------------ *)
\* C36: when CLI() has returned from an observability clean that is not a
\* dry run, no error raised and no metric recorded by a hook, the Prometheus
\* metrics file does not exist: observabilityClean set no command label, so
\* finalizeController recorded nothing and persistMetrics wrote nothing.
C36_NoMetricsFileAfterObservabilityClean ==
  /\ {"observability", "clean"} \subseteq cliArgs
  /\ ~isDryRun
  /\ ~ErrorRaised
  /\ cliPc = "returned"
  => /\ "metrics.prom" \notin files
     /\ execInfoCommand = <<>>
     /\ pco.metrics = <<>>
     /\ Happened("finalize", "", 0)

C36_Witness ==
  /\ {"observability", "clean"} \subseteq cliArgs
  /\ ~isDryRun
  /\ ~ErrorRaised
  /\ cliPc = "returned"
  /\ Happened("rm", "metrics.prom", 0)
  /\ HooksCompleted("observability-clean")
  /\ ActionPluginIdx # {}

(* ------------------------------------------------------------------ *)
(* orchestrationCLI: experiment and publish                           *)
(* ------------------------------------------------------------------ *)
\* the command lines the usage text of prepareOrchestrationArgs accepts, as
\* the set of their truthy keys
OrchestrationCommandLines ==
  {{"experiment", server} \cup flags :
     server \in {"hugo", "file"},
     flags \in SUBSET {"--init-config", "--generate-content", "--verbose"}}
  \cup {{"publish"} \cup flags : flags \in SUBSET {"--verbose"}}

\* uuid.v4.generate()
TxIDs == {"tx-1", "tx-2"}

\* every flag taken from the command line, whatever the orchestration
prepareOrchestrationArgsAsGiven(cli) ==
  [orchestration |-> IF "experiment" \in cli THEN "experiment" ELSE "publish",
   server |-> IF "hugo" \in cli THEN "hugo" ELSE "file",
   initConfig |-> "--init-config" \in cli,
   generateContent |-> "--generate-content" \in cli,
   verbose |-> "--verbose" \in cli,
   publID |-> "sandbox"]

prepareOrchestrationArgs(cli) ==
  LET orchestration == IF "experiment" \in cli THEN "experiment" ELSE "publish"
  IN [orchestration |-> orchestration,
      server |-> IF orchestration = "experiment"
                   THEN (IF "hugo" \in cli THEN "hugo" ELSE "file")
                   ELSE "file",
      initConfig |-> IF orchestration = "experiment"
                       THEN "--init-config" \in cli ELSE TRUE,
      generateContent |-> IF orchestration = "experiment"
                            THEN "--generate-content" \in cli ELSE TRUE,
      verbose |-> "--verbose" \in cli,
      publID |-> "sandbox"]

\* the argV of each sub-invocation
pubCtlArgV(step, args, txID) ==
  LET verboseArg == IF args.verbose THEN <<"--verbose">> ELSE <<>>
      txArg == <<"--tx-id", txID>>
      scheduleTxArgs == <<"--schedule", "@" \o args.orchestration>> \o txArg
      publArgs == <<"--publ", args.publID>>
  IN CASE step = "hugo clean" -> <<"hugo", "clean">> \o txArg
       [] step = "hugo init" ->
            <<"hugo", "init">> \o publArgs \o txArg \o verboseArg
       [] step = "generate" -> <<"generate">> \o scheduleTxArgs \o verboseArg
       [] step = "build prepare" ->
            <<"build", "prepare">> \o publArgs \o scheduleTxArgs \o verboseArg
       [] step = "build finalize" ->
            <<"build", "finalize">> \o publArgs \o scheduleTxArgs
              \o verboseArg
              \o <<"--observability-hugo-results-file",
                   "static/.observability/hugo-build-results.auto.txt">>

\* where orchestrationCLI goes on after the statement at pc
OrchestrationAfter(pc, args) ==
  LET afterInit == IF args.generateContent THEN "generate" ELSE "build prepare"
  IN CASE pc = "start" -> IF args.initConfig THEN "hugo clean" ELSE afterInit
       [] pc = "hugo clean" -> "hugo init"
       [] pc = "hugo init" -> "hugo mod vendor"
       [] pc = "hugo mod vendor" -> afterInit
       [] pc = "generate" -> "build prepare"
       [] pc = "build prepare" -> "server"
       [] pc = "server" -> IF args.server = "hugo" THEN "exited" ELSE "hugo"
       [] pc = "hugo" -> "build finalize"
       [] pc = "build finalize" -> "copy"
       [] pc = "copy" -> "returned"

OrchestrationSteps ==
  {"hugo clean", "hugo init", "generate", "build prepare", "build finalize"}

\* orchestrationCLI up to its first statement after the arguments are ready
OrchestrationInit ==
  /\ \E cli \in OrchestrationCommandLines, txID \in TxIDs :
       fnIn = [cliArgs |-> prepareOrchestrationArgs(cli), cli |-> cli,
               txID |-> txID]
  /\ fnOut = [pc |-> OrchestrationAfter("start", fnIn.cliArgs),
              active |-> FALSE, trace |-> <<>>]
  /\ plugins = <<>>
  /\ HooksOff
  /\ DiscOff
  /\ CtlOff
  /\ ShellOff

\* await pubCtlCLI(argV): the caller is constructed and wrapCLI is called
pubCtlCLI ==
  /\ fnOut.pc \in OrchestrationSteps
  /\ ~fnOut.active
  /\ fnOut' = [fnOut EXCEPT
                 !.active = TRUE,
                 !.trace = Append(@, [ev |-> "wrapCLI",
                                      argV |-> pubCtlArgV(fnOut.pc, fnIn.cliArgs,
                                                          fnIn.txID)])]
  /\ UNCHANGED <<fnIn, hookVars, discVars, ctlVars, shellVars>>

\* the promise of wrapCLI(caller) resolves
wrapCLIResolves ==
  /\ fnOut.pc \in OrchestrationSteps
  /\ fnOut.active
  /\ fnOut' = [fnOut EXCEPT
                 !.active = FALSE,
                 !.trace = Append(@, [ev |-> "resolved", argV |-> <<>>]),
                 !.pc = OrchestrationAfter(fnOut.pc, fnIn.cliArgs)]
  /\ UNCHANGED <<fnIn, hookVars, discVars, ctlVars, shellVars>>

\* hugo mod vendor, then the count of the vendored modules; without
\* _vendor/modules.txt, Deno.removeSync("_vendor"), which throws when the
\* directory is not there either
hugoModVendor ==
  /\ fnOut.pc = "hugo mod vendor"
  /\ \E vendored \in {"modules.txt", "_vendor", "nothing"} :
       fnOut' = [fnOut EXCEPT
                   !.trace = Append(@, [ev |-> "hugo mod vendor",
                                        argV |-> <<vendored>>]),
                   !.pc = IF vendored = "nothing" THEN "rejected"
                          ELSE OrchestrationAfter(fnOut.pc, fnIn.cliArgs)]
  /\ UNCHANGED <<fnIn, hookVars, discVars, ctlVars, shellVars>>

\* if (cliArgs.server == OrchestrationServerNature.hugo) { ...; Deno.exit() }
hugoServerReady ==
  /\ fnOut.pc = "server"
  /\ fnOut' = [fnOut EXCEPT !.pc = OrchestrationAfter(fnOut.pc, fnIn.cliArgs)]
  /\ UNCHANGED <<fnIn, hookVars, discVars, ctlVars, shellVars>>

\* Deno.run of hugo, and its output written to the build results file
hugoBuild ==
  /\ fnOut.pc = "hugo"
  /\ fnOut' = [fnOut EXCEPT
                 !.trace = Append(@, [ev |-> "hugo", argV |-> <<>>]),
                 !.pc = OrchestrationAfter(fnOut.pc, fnIn.cliArgs)]
  /\ UNCHANGED <<fnIn, hookVars, discVars, ctlVars, shellVars>>

\* Deno.copyFileSync of the build results, and orchestrationCLI returns
copyHugoBuildResults ==
  /\ fnOut.pc = "copy"
  /\ fnOut' = [fnOut EXCEPT
                 !.trace = Append(@, [ev |-> "copy", argV |-> <<>>]),
                 !.pc = OrchestrationAfter(fnOut.pc, fnIn.cliArgs)]
  /\ UNCHANGED <<fnIn, hookVars, discVars, ctlVars, shellVars>>

OrchestrationNext ==
  \/ pubCtlCLI
  \/ wrapCLIResolves
  \/ hugoModVendor
  \/ hugoServerReady
  \/ hugoBuild
  \/ copyHugoBuildResults

SpecOrchestration == OrchestrationInit /\ [][OrchestrationNext]_vars

\* the command words of an argV: what precedes its first option
RECURSIVE CommandWords(_)
CommandWords(argV) ==
  IF argV = <<>> \/ Head(argV) \in {"--tx-id", "--publ", "--schedule",
                                    "--verbose"}
    THEN <<>>
    ELSE <<Head(argV)>> \o CommandWords(Tail(argV))

\* the sub-invocations and the hugo build of the run so far, in order
RECURSIVE Issued(_)
Issued(trace) ==
  IF trace = <<>> THEN <<>>
  ELSE LET e == Head(trace)
       IN (IF e.ev = "wrapCLI" THEN <<join(CommandWords(e.argV), " ")>>
           ELSE IF e.ev = "hugo" THEN <<"hugo">>
           ELSE <<>>) \o Issued(Tail(trace))

\* the order a run of the given flags follows when nothing stops it
OrchestrationOrder(initConfig, generateContent, server) ==
  (IF initConfig THEN <<"hugo clean", "hugo init">> ELSE <<>>)
  \o (IF generateContent THEN <<"generate">> ELSE <<>>)
  \o <<"build prepare">>
  \o (IF server = "hugo" THEN <<>> ELSE <<"hugo", "build finalize">>)

isPrefix(s, t) == Len(s) <= Len(t) /\ \A k \in 1..Len(s) : s[k] = t[k]

\* the value that follows the option in argV, "" when the option is absent
OptionValue(argV, option) ==
  LET at == {k \in 1..(Len(argV) - 1) : argV[k] = option}
  IN IF at = {} THEN "" ELSE argV[(CHOOSE k \in at : TRUE) + 1]

\* C37: the sub-invocations of a run are issued one after another, each
\* after the one before it has resolved, in the order hugo clean, hugo init
\* (with --init-config only), generate (with --generate-content only), build
\* prepare, the hugo build, build finalize; build finalize follows a build
\* prepare; publish always inits and generates; with the hugo server the run
\* ends after build prepare; every sub-invocation carries the one
\* transaction id of the run.
C37_OrchestrationOrder ==
  "trace" \in DOMAIN fnOut =>
    LET trace == fnOut.trace
        args == fnIn.cliArgs
        issued == Issued(trace)
        order == OrchestrationOrder(
                   IF "publish" \in fnIn.cli THEN TRUE
                   ELSE "--init-config" \in fnIn.cli,
                   IF "publish" \in fnIn.cli THEN TRUE
                   ELSE "--generate-content" \in fnIn.cli,
                   IF "hugo" \in fnIn.cli THEN "hugo" ELSE "file")
    IN /\ isPrefix(issued, order)
       /\ fnOut.pc \in {"returned", "exited"} => issued = order
       /\ \A k \in 1..Len(trace) :
            trace[k].ev = "wrapCLI" =>
              /\ k > 1 => trace[k - 1].ev # "wrapCLI"
              /\ \A j \in 1..(k - 1) :
                   trace[j].ev = "wrapCLI" =>
                     \E r \in (j + 1)..(k - 1) : trace[r].ev = "resolved"
              /\ OptionValue(trace[k].argV, "--tx-id") = fnIn.txID
              /\ CommandWords(trace[k].argV) = <<"build", "finalize">> =>
                   \E j \in 1..(k - 1) :
                     /\ trace[j].ev = "wrapCLI"
                     /\ CommandWords(trace[j].argV) = <<"build", "prepare">>
       /\ "hugo" \in fnIn.cli /\ fnOut.pc = "exited" =>
            issued[Len(issued)] = "build prepare" /\ ~fnOut.active

C37_Witness ==
  /\ "trace" \in DOMAIN fnOut
  /\ "publish" \in fnIn.cli
  /\ fnOut.pc = "returned"
  /\ Issued(fnOut.trace) =
       <<"hugo clean", "hugo init", "generate", "build prepare", "hugo",
         "build finalize">>

(* ------------------------------------------------------------------ *)
(* clean and the project home                                         *)
(* ------------------------------------------------------------------ *)
\* a path is the sequence of its segments, the root "/" first when absolute
isAbsolute(p) == p # <<>> /\ p[1] = "/"

\* path.resolve(cwd, p)
resolve(cwd, p) == IF isAbsolute(p) THEN p ELSE cwd \o p

NoPath == <<>>

\* --project, caller.projectHome and Deno.cwd()
ProjectArgs == {NoPath, <<"site">>, <<"/", "srv", "site">>}

CallerProjectHomes == {NoPath, <<"/", "srv", "site">>}

WorkingDirectories == {<<"/", "srv", "site">>, <<"/", "home", "user">>}

\* publicationsControllerOptions: the project home, made absolute
projectHomeAbs(projectArg, callerProjectHome, cwd) ==
  LET projectHome == IF projectArg # NoPath THEN projectArg
                     ELSE IF callerProjectHome # NoPath THEN callerProjectHome
                     ELSE cwd
  IN resolve(cwd, projectHome)

\* the files on disk before the run: the cleanup targets in some of the
\* directories
TargetsIn(dirs) ==
  {d \o <<CleanTargets[t]>> : d \in dirs, t \in DOMAIN CleanTargets}

Disks ==
  {TargetsIn(dirs) :
     dirs \in SUBSET {<<"/", "srv", "site">>, <<"/", "home", "user">>,
                      <<"/", "home", "user", "site">>}}

CleanInit ==
  /\ \E projectArg \in ProjectArgs, home \in CallerProjectHomes,
        cwd \in WorkingDirectories, dryRun \in BOOLEAN, disk \in Disks :
       fnIn = [projectHome |-> projectHomeAbs(projectArg, home, cwd),
               cwd |-> cwd, isDryRun |-> dryRun, disk |-> disk]
  /\ fnOut = [pc |-> "executeHooks", k |-> 1, disk |-> fnIn.disk,
              removed |-> {}, proposed |-> {}]
  /\ plugins = <<>>
  /\ HooksOff
  /\ DiscOff
  /\ CtlOff
  /\ ShellOff

\* await this.executeHooks({ proxyCmd: HookLifecycleStep.CLEAN })
CleanExecuteHooks ==
  /\ fnOut.pc = "executeHooks"
  /\ fnOut' = [fnOut EXCEPT !.pc = "forEach"]
  /\ UNCHANGED <<fnIn, hookVars, discVars, ctlVars, shellVars>>

\* one round of the forEach: fs.existsSync(f), then rm -f printed or
\* Deno.removeSync(f, { recursive: true }); a relative f is taken from the
\* working directory of the process
CleanRemoveTarget ==
  /\ fnOut.pc = "forEach"
  /\ LET f == resolve(fnIn.cwd, <<CleanTargets[fnOut.k]>>)
         existsSync == f \in fnOut.disk
     IN fnOut' = [fnOut EXCEPT
                    !.pc = IF fnOut.k = Len(CleanTargets) THEN "returned"
                           ELSE @,
                    !.k = @ + 1,
                    !.disk = IF existsSync /\ ~fnIn.isDryRun THEN @ \ {f}
                             ELSE @,
                    !.removed = IF existsSync /\ ~fnIn.isDryRun
                                  THEN @ \cup {f} ELSE @,
                    !.proposed = IF existsSync /\ fnIn.isDryRun
                                   THEN @ \cup {f} ELSE @]
  /\ UNCHANGED <<fnIn, hookVars, discVars, ctlVars, shellVars>>

CleanNext ==
  \/ CleanExecuteHooks
  \/ CleanRemoveTarget

SpecClean == CleanInit /\ [][CleanNext]_vars

\* C38: whatever --project and the working directory are, what clean removes
\* are the cleanup targets of the project home: nothing outside the project
\* home is deleted, and after clean no target is left in the project home
\* unless the run is a dry run.
C38_CleanStaysInProjectHome ==
  "removed" \in DOMAIN fnOut =>
    /\ \A f \in fnOut.removed : isPrefix(fnIn.projectHome, f)
    /\ fnOut.pc = "returned" /\ ~fnIn.isDryRun =>
         TargetsIn({fnIn.projectHome}) \cap fnOut.disk = {}

(* ------------------------------------------------------------------ *)
(* publModuleImportRepoPath and its cache                             *)
(* ------------------------------------------------------------------ *)
MaxRepoPathCalls == 3

\* path.relative(from, to) of two absolute paths: up from what is left of
\* from after the common ancestor, then down what is left of to
relative(from, to) ==
  LET common == {k \in 0..Len(from) :
                   k <= Len(to) /\ \A i \in 1..k : from[i] = to[i]}
      c == CHOOSE k \in common : \A j \in common : j <= k
  IN [i \in 1..(Len(from) - c) |-> ".."] \o SubSeq(to, c + 1, Len(to))

\* findPathInAncestors(findPath, startPath, returnPath) up to the call of
\* returnPath: the path found in startPath or in the nearest ancestor that
\* has it, NoPath when none has
findPathInAncestors(findPath, startPath, disk) ==
  LET searchPath(a) == SubSeq(startPath, 1, Len(startPath) - a) \o findPath
      found == {a \in 0..(Len(startPath) - 1) : searchPath(a) \in disk}
  IN IF found = {} THEN NoPath
     ELSE searchPath(CHOOSE a \in found : \A b \in found : a <= b)

inheritProjectHome == <<"/", "home", "user", "site">>

\* relTo: "project", a path, or absent
RelTos ==
  {[relTo |-> "project", path |-> NoPath],
   [relTo |-> "path", path |-> <<"/", "home", "user">>],
   [relTo |-> "undefined", path |-> NoPath]}

ToPaths == {<<"github.com", "a">>, <<"github.com", "b">>}

\* the function publModuleImportRepoPath computes when the cache has nothing
\* for toPath
publModuleImportRepoPathComputed(toPath, relTo, disk) ==
  LET fromPath == inheritProjectHome \o <<"themes">>
      found == findPathInAncestors(toPath, fromPath, disk)
  IN IF found # NoPath
       THEN relative(IF relTo.relTo = "project" THEN inheritProjectHome
                     ELSE IF relTo.relTo = "path" THEN relTo.path
                     ELSE fromPath,
                     found)
       ELSE toPath

\* the repositories on disk: in the themes directory, in an ancestor of it,
\* or nowhere
RepoDisks ==
  {{d \o t : d \in dirs, t \in ToPaths} :
     dirs \in SUBSET {inheritProjectHome \o <<"themes">>,
                      <<"/", "home", "user">>}}

ModuleImportRepoPathInit ==
  /\ fnIn \in [disk : RepoDisks]
  /\ fnOut = [publModuleImportRepoPathsCache |-> [t \in ToPaths |-> NoPath],
              returned |-> <<>>]
  /\ plugins = <<>>
  /\ HooksOff
  /\ DiscOff
  /\ CtlOff
  /\ ShellOff

\* one call of spco.publModuleImportRepoPath(toPath, relTo)
publModuleImportRepoPath ==
  /\ Len(fnOut.returned) < MaxRepoPathCalls
  /\ \E toPath \in ToPaths, relTo \in RelTos :
       LET inCache == fnOut.publModuleImportRepoPathsCache[toPath]
           found == publModuleImportRepoPathComputed(toPath, relTo, fnIn.disk)
       IN IF inCache # NoPath
            THEN fnOut' = [fnOut EXCEPT
                             !.returned = Append(@, [toPath |-> toPath,
                                                     relTo |-> relTo,
                                                     result |-> inCache])]
            ELSE fnOut' = [fnOut EXCEPT
                             !.publModuleImportRepoPathsCache[toPath] = found,
                             !.returned = Append(@, [toPath |-> toPath,
                                                     relTo |-> relTo,
                                                     result |-> found])]
  /\ UNCHANGED <<fnIn, hookVars, discVars, ctlVars, shellVars>>

SpecModuleImportRepoPath ==
  ModuleImportRepoPathInit /\ [][publModuleImportRepoPath]_vars

\* C39: every call of publModuleImportRepoPath(toPath, relTo) returns what
\* the computation without the cache returns for this toPath and relTo: the
\* found repository relative to the project home, to relTo or to the themes
\* directory, or toPath when it is found nowhere.
C39_CacheNeverChangesTheResult ==
  "returned" \in DOMAIN fnOut =>
    \A k \in 1..Len(fnOut.returned) :
      fnOut.returned[k].result =
        publModuleImportRepoPathComputed(fnOut.returned[k].toPath,
                                         fnOut.returned[k].relTo, fnIn.disk)

============================================================================
